---------------------------- MODULE Spec2Model ----------------------------
(***************************************************************************)
(* A model of copilot-lens: the TTL result cache (cache.ts), the session   *)
(* aggregate of sessions.ts (listSessions / getSession over the CLI and    *)
(* the VS Code adapters) and the Claude Code adapter                       *)
(* (claude-code-sessions.ts).                                              *)
(*                                                                         *)
(* The program is single-threaded and synchronous: every exported function *)
(* runs to completion, so each one is one action.  The file system and the *)
(* clock belong to the environment; they change between calls.             *)
(***************************************************************************)
EXTENDS Integers, Sequences, FiniteSets, TLC

VARIABLES
    cache,       \* cache.ts: Map<string, {value, expiresAt}>, a partial function
    now,         \* Date.now(), in ms
    lastOp,      \* observation: the last operation, its arguments and its outcome
    clearLog,    \* observation: the last clearCache: when it ran, the keys whose live
                 \* entry it dropped, the keys not passed to cachedCall since
    cliRoot,     \* ~/.copilot/session-state: "missing", "unreadable" or "dir"
    cliDirs,     \* its session directories, in readdir order
    vsDb,        \* <dataDir>/User/globalStorage/state.vscdb: "absent", "unreadable", "ok"
    vsIndex,     \* the entries of chat.ChatSessionStore.index, in Object.values order
    vsFiles,     \* the per-session JSON file of each id
    listLog,     \* observation: the last listSessions() not followed by a file change
    ccRoot,      \* ~/.claude/projects: "missing", "unreadable" or "dir"
    ccFiles,     \* the <sessionId>.jsonl transcripts of its project, in readdir order
    knownClaudeIds,  \* claude-code-sessions.ts: the module-level Set _knownClaudeIds
    timestamps,  \* the timestamps of the events of the session being loaded, in file order
    subject,     \* what a status is derived from: a session directory, an index entry
                 \* or a transcript file
    indexEntries,    \* search.ts: SearchIndex.entries
    storedSessions,  \* search.ts: SearchIndex.storedSessions (null until buildIndex)
    sessionText, \* what getSession(id) gives now: null, an exception, or a detail
                 \* whose messages hold one word
    cycle,       \* observation, since the last clear(): the calls that loaded session
                 \* details, and whether a clear() is the last change of the index;
                 \* over all calls: the session lists of the last two buildIndex()
    rawLines,    \* the line-delimited log being parsed: events.jsonl or a transcript,
                 \* and its lines in file order
    message,     \* the text field of a session file being converted, and where it sits
    rawContent   \* the joined content of a search entry and the tokens of the query

cacheVars == <<cache, clearLog>>
fsVars == <<cliRoot, cliDirs, vsDb, vsIndex, vsFiles>>
ccVars == <<ccRoot, ccFiles, knownClaudeIds>>
searchVars == <<indexEntries, storedSessions, sessionText, cycle>>
textVars == <<rawLines, message, rawContent>>
auxVars == <<timestamps, subject, searchVars, textVars>>

vars == <<cache, now, lastOp, clearLog, cliRoot, cliDirs, vsDb, vsIndex, vsFiles, listLog,
          ccRoot, ccFiles, knownClaudeIds, timestamps, subject,
          indexEntries, storedSessions, sessionText, cycle,
          rawLines, message, rawContent>>

---------------------------------------------------------------------------
(* Bounds of the cache specification *)

MaxNow == 4            \* the clock runs from 0 to MaxNow
MaxTtl == 2            \* ttlMs arguments are 0..MaxTtl
MaxVal == 2            \* compute returns one of the objects 1..MaxVal
MaxComputeTime == 1    \* compute takes 0..MaxComputeTime ms

\* The keys the program passes to cachedCall (claude-code-sessions.ts).
Keys == {"listClaudeCodeSessions", "getClaudeCodeAnalytics"}

EmptyMap == [k \in {} |-> 0]

---------------------------------------------------------------------------
(* cache.ts *)

\* Inverted comparison: an entry counts as live once it has expired.
CacheIsLive_Inverted(c, key, t) ==
    key \in DOMAIN c /\ t > c[key].expiresAt

\* Off by one: an entry is still served at the instant it expires.
CacheIsLive_Inclusive(c, key, t) ==
    key \in DOMAIN c /\ t <= c[key].expiresAt

\* if (entry && Date.now() < entry.expiresAt)
CacheIsLive(c, key, t) ==
    key \in DOMAIN c /\ t < c[key].expiresAt

\* cache.set(key, { value, expiresAt })
CacheSet(c, key, entry) ==
    [k \in (DOMAIN c) \cup {key} |-> IF k = key THEN entry ELSE c[k]]

\* A clear that drops one key only.
CacheClear_OneKey(c) ==
    [k \in (DOMAIN c) \ {"listClaudeCodeSessions"} |-> c[k]]

\* cache.clear()
CacheClear(c) == EmptyMap

\* What cachedCall finds under key at time t.
EntryState(c, key, t) ==
    IF key \notin DOMAIN c THEN "none"
    ELSE IF t >= c[key].expiresAt THEN "expired" ELSE "live"

NoClear == [at |-> 0, pending |-> {}, live |-> {}]

\* The file system and the list log of a specification that does not use them.
NoFiles ==
    /\ cliRoot = "missing" /\ cliDirs = <<>>
    /\ vsDb = "absent" /\ vsIndex = <<>>
    /\ vsFiles = [i \in {} |-> "absent"]

NoSubject == [kind |-> "none"]

NoStored == [set |-> FALSE, list |-> <<>>]

NoCycle == [loadCalls |-> 0, afterClear |-> FALSE, called |-> FALSE,
            supplied |-> <<>>, previous |-> <<>>]

NoSearch ==
    /\ indexEntries = <<>>
    /\ storedSessions = NoStored
    /\ sessionText = [i \in {} |-> "null"]
    /\ cycle = NoCycle

NoMessage == [kind |-> "none"]

NoContent == [text |-> <<>>, tokens |-> <<>>]

NoLines == [format |-> "none", lines |-> <<>>]

NoText == rawLines = NoLines /\ message = NoMessage /\ rawContent = NoContent

NoAux == timestamps = <<>> /\ subject = NoSubject /\ NoSearch /\ NoText

NoClaude ==
    /\ ccRoot = "missing" /\ ccFiles = <<>>
    /\ knownClaudeIds = {}

NoList == [valid |-> FALSE, at |-> 0, ret |-> <<>>]

NoCall == [op |-> "init", key |-> "", ttl |-> 0, pre |-> "none", ret |-> 0,
           computed |-> 0, computes |-> 0, afterClear |-> FALSE]

\* cachedCall(key, ttlMs, fn): fn returns v and takes d ms.
CachedCall(key, ttl, v, d) ==
    /\ now + d <= MaxNow
    /\ IF CacheIsLive(cache, key, now)
         THEN /\ cache' = cache
              /\ now' = now
              /\ lastOp' = [op |-> "cachedCall", key |-> key, ttl |-> ttl,
                            pre |-> EntryState(cache, key, now),
                            ret |-> cache[key].value, computed |-> 0, computes |-> 0,
                            afterClear |-> key \in clearLog.pending]
         ELSE /\ now' = now + d
              /\ cache' = CacheSet(cache, key, [value |-> v, expiresAt |-> now' + ttl])
              /\ lastOp' = [op |-> "cachedCall", key |-> key, ttl |-> ttl,
                            pre |-> EntryState(cache, key, now),
                            ret |-> v, computed |-> v, computes |-> 1,
                            afterClear |-> key \in clearLog.pending]
    /\ clearLog' = [clearLog EXCEPT !.pending = @ \ {key}]
    /\ UNCHANGED <<fsVars, listLog, ccVars, auxVars>>

\* A cachedCall whose fn throws removes the entry it found expired.
CachedCallThrows_Evicts(key, ttl, d) ==
    /\ now + d <= MaxNow
    /\ ~CacheIsLive(cache, key, now)
    /\ now' = now + d
    /\ cache' = [k \in (DOMAIN cache) \ {key} |-> cache[k]]
    /\ lastOp' = [NoCall EXCEPT !.op = "cachedCallThrew", !.key = key, !.ttl = ttl,
                     !.pre = EntryState(cache, key, now), !.computes = 1,
                     !.afterClear = key \in clearLog.pending]
    /\ clearLog' = [clearLog EXCEPT !.pending = @ \ {key}]
    /\ UNCHANGED <<fsVars, listLog, ccVars, auxVars>>

\* cachedCall(key, ttlMs, fn) with an fn that throws after d ms: it finds no live
\* entry (a live one is returned without calling fn, as in CachedCall), fn() raises
\* before cache.set is reached, and the exception leaves cachedCall.
CachedCallThrows(key, ttl, d) ==
    /\ now + d <= MaxNow
    /\ ~CacheIsLive(cache, key, now)
    /\ now' = now + d
    /\ cache' = cache
    /\ lastOp' = [NoCall EXCEPT !.op = "cachedCallThrew", !.key = key, !.ttl = ttl,
                     !.pre = EntryState(cache, key, now), !.computes = 1,
                     !.afterClear = key \in clearLog.pending]
    /\ clearLog' = [clearLog EXCEPT !.pending = @ \ {key}]
    /\ UNCHANGED <<fsVars, listLog, ccVars, auxVars>>

\* clearCache()
ClearCache ==
    /\ cache' = CacheClear(cache)
    /\ lastOp' = [NoCall EXCEPT !.op = "clearCache"]
    /\ clearLog' = [at |-> now, pending |-> Keys,
                    live |-> {k \in DOMAIN cache : now < cache[k].expiresAt}]
    /\ UNCHANGED <<now, fsVars, listLog, ccVars, auxVars>>

\* Time passes between two calls.
Tick ==
    /\ now < MaxNow
    /\ now' = now + 1
    /\ lastOp' = [NoCall EXCEPT !.op = "tick"]
    /\ UNCHANGED <<cache, clearLog, fsVars, listLog, ccVars, auxVars>>

InitCache ==
    /\ cache = EmptyMap
    /\ now = 0
    /\ lastOp = NoCall
    /\ clearLog = NoClear
    /\ NoFiles
    /\ NoClaude
    /\ listLog = NoList
    /\ NoAux

NextCache ==
    \/ \E key \in Keys, ttl \in 0..MaxTtl, v \in 1..MaxVal, d \in 0..MaxComputeTime :
           CachedCall(key, ttl, v, d)
    \/ \E key \in Keys, ttl \in 0..MaxTtl, d \in 0..MaxComputeTime :
           CachedCallThrows(key, ttl, d)
    \/ ClearCache
    \/ Tick

SpecCache == InitCache /\ [][NextCache]_vars

---------------------------------------------------------------------------
(* Claims about the result cache *)

\* C1: a cachedCall that finds an entry for key whose expiresAt is later than the
\* current time returns that entry's stored value, does not invoke compute and
\* leaves the cache map unchanged.
C1_LiveEntryIsReturned ==
    [][\A k \in Keys :
         (lastOp'.op = "cachedCall" /\ lastOp'.key = k
            /\ k \in DOMAIN cache /\ cache[k].expiresAt > now)
         => (/\ lastOp'.ret = cache[k].value
             /\ lastOp'.computes = 0
             /\ cache' = cache)]_vars

\* A hit on a live entry, after an earlier clearCache and an earlier miss.
C1_Witness ==
    /\ lastOp.op = "cachedCall"
    /\ lastOp.pre = "live"
    /\ lastOp.computes = 0
    /\ lastOp.key \in DOMAIN cache
    /\ lastOp.ret = cache[lastOp.key].value
    /\ now < cache[lastOp.key].expiresAt
    /\ clearLog.pending # {}

\* C2: a cachedCall that finds no entry for key, or one whose expiresAt the clock
\* has reached or passed, invokes compute exactly once, returns its result and
\* replaces the entry by {result, expiresAt = now + ttl} (now read when the entry
\* is stored); no call returns a value whose expiry time has passed.
C2_MissRecomputes ==
    [][\A k \in Keys :
         (lastOp'.op = "cachedCall" /\ lastOp'.key = k)
         => /\ (k \notin DOMAIN cache \/ now >= cache[k].expiresAt)
                => (/\ lastOp'.computes = 1
                    /\ lastOp'.ret = lastOp'.computed
                    /\ k \in DOMAIN cache'
                    /\ cache'[k] = [value |-> lastOp'.computed,
                                    expiresAt |-> now' + lastOp'.ttl])
            /\ lastOp'.computes = 0
                => (k \in DOMAIN cache /\ now < cache[k].expiresAt)]_vars

\* A recomputation over an expired entry, whose value differs from the old one.
C2_Witness ==
    /\ lastOp.op = "cachedCall"
    /\ lastOp.pre = "expired"
    /\ lastOp.computes = 1
    /\ lastOp.ret = cache[lastOp.key].value
    /\ cache[lastOp.key].expiresAt = now + lastOp.ttl

\* C3: after clearCache the cache holds no entry for any key, so the first
\* cachedCall for a key after a clear invokes compute again, also when the entry
\* dropped by the clear was still live; clearCache on an empty cache succeeds.
C3_ClearDiscardsAll ==
    /\ lastOp.op = "clearCache" => DOMAIN cache = {}
    /\ (lastOp.op = "cachedCall" /\ lastOp.afterClear) => lastOp.computes = 1
    /\ DOMAIN cache = {} => ENABLED ClearCache

\* The first call for a key after a clear that dropped its live entry, made at
\* the instant of the clear (the dropped entry would still be live).
C3_Witness ==
    /\ lastOp.op = "cachedCall"
    /\ lastOp.afterClear
    /\ lastOp.key \in clearLog.live
    /\ lastOp.computes = 1
    /\ now = clearLog.at

---------------------------------------------------------------------------
(* The on-disk data of the CLI and the VS Code adapters *)

Ids == {"s1", "s2"}

MaxDate == 2           \* timestamps are 1..MaxDate; 0 stands for a missing one

\* A created_at / startTime that is missing, empty or no date: new Date("") is
\* Invalid Date, its getTime() is NaN, msToIso(0 | undefined) is "".
EmptyDate == 0

\* CACHE_TTL, the TTL of every cached aggregate
CACHE_TTL == 30000

\* A line of events.jsonl: blank, not JSON ("bad"), a user.message event, or an
\* event of another type (session.start, assistant.turn_start, ...).
LineKinds == {"blank", "bad", "user", "other"}

\* JSON.parse of the non-blank lines, the malformed ones skipped.
RECURSIVE ParseEventLines(_)
ParseEventLines(lines) ==
    IF lines = <<>> THEN <<>>
    ELSE IF Head(lines) \in {"blank", "bad"} THEN ParseEventLines(Tail(lines))
    ELSE <<[type |-> IF Head(lines) = "user" THEN "user.message" ELSE "session.start"]>>
             \o ParseEventLines(Tail(lines))

\* SessionDetail | null.  A detail carries the fields the claims read.
Null == [isNull |-> TRUE, id |-> "", source |-> "", createdAt |-> EmptyDate,
         updatedAt |-> EmptyDate, events |-> <<>>]

\* The outcome of a call: a returned list, a returned detail or a raised exception.
ListOk(l) == [threw |-> FALSE, list |-> l]
ListThrew == [threw |-> TRUE, list |-> <<>>]
DetailOk(d) == [threw |-> FALSE, detail |-> d]
DetailThrew == [threw |-> TRUE, detail |-> Null]

---------------------------------------------------------------------------
(* vscode-sessions.ts *)

\* msToIso(ms): "" for 0 or undefined, the ISO string of ms otherwise.  ISO
\* strings of valid dates are ordered as their milliseconds are.
MsToIso(ms) == IF ms = 0 THEN EmptyDate ELSE ms

\* a || b on numbers
OrElse(a, b) == IF a # 0 THEN a ELSE b

\* readSessionIndex(dataDir): [] unless the database opens and holds the index.
ReadSessionIndex(db, index) == IF db = "ok" THEN index ELSE <<>>

\* listVSCodeSessions(), over the one data directory that exists
RECURSIVE VSCodeMetas(_)
VSCodeMetas(entries) ==
    IF entries = <<>> THEN <<>>
    ELSE LET e == Head(entries) IN
         IF e.isEmpty THEN VSCodeMetas(Tail(entries))
         ELSE <<[id |-> e.sessionId, source |-> "vscode",
                 createdAt |-> MsToIso(OrElse(e.startTime, e.lastMessageDate)),
                 updatedAt |-> MsToIso(OrElse(e.endTime, e.lastMessageDate))]>>
                  \o VSCodeMetas(Tail(entries))

ListVSCodeSessions(db, index) == ListOk(VSCodeMetas(ReadSessionIndex(db, index)))

\* isVSCodeSession(sessionId): some index entry carries the id
IsVSCodeSession(db, index, id) ==
    \E i \in DOMAIN ReadSessionIndex(db, index) :
        ReadSessionIndex(db, index)[i].sessionId = id

\* The per-session file of id: "absent"; "big" (over MAX_FILE_SIZE); "unreadable"
\* (stat, read or JSON.parse fails, or a request is null); "ok"; "badts" (valid
\* JSON in which a request's timestamp is no date, so that
\* new Date(req.timestamp).toISOString() raises RangeError).
FileKinds == {"absent", "big", "unreadable", "ok", "badts"}

FileOf(files, id) == IF id \in DOMAIN files THEN files[id] ELSE "absent"

\* getVSCodeSession(sessionId)
GetVSCodeSession(files, id) ==
    CASE FileOf(files, id) = "absent" -> DetailOk(Null)          \* findSessionFile: null
      [] FileOf(files, id) \in {"big", "unreadable"} -> DetailOk(Null)  \* readSessionContent: null
      [] FileOf(files, id) = "badts" -> DetailThrew              \* requestsToEvents raises
      [] OTHER -> DetailOk([isNull |-> FALSE, id |-> id, source |-> "vscode",
                            createdAt |-> EmptyDate, updatedAt |-> EmptyDate,
                            events |-> <<[type |-> "user.message"],
                                         [type |-> "assistant.turn_start"]>>])

---------------------------------------------------------------------------
(* sessions.ts *)

\* workspace.yaml of a session directory: "absent"; "unreadable" (readFileSync or
\* parseYaml raises); "null" (an empty document: parseYaml returns null); "ok".
WsKinds == {"absent", "unreadable", "null", "ok"}

\* listCliSessions(), the loop over the directory entries
RECURSIVE CliMetas(_)
CliMetas(dirs) ==
    IF dirs = <<>> THEN <<>>
    ELSE LET d == Head(dirs) IN
         IF d.ws # "ok" THEN CliMetas(Tail(dirs))     \* no file, or the try block raises
         ELSE <<[id |-> d.name, source |-> "cli",
                 createdAt |-> d.created, updatedAt |-> d.updated]>>
                  \o CliMetas(Tail(dirs))

\* listCliSessions(): readdirSync is outside every try block
ListCliSessions(root, dirs) ==
    CASE root = "missing" -> ListOk(<<>>)
      [] root = "unreadable" -> ListThrew
      [] OTHER -> ListOk(CliMetas(dirs))

\* (a, b) => new Date(b.createdAt).getTime() - new Date(a.createdAt).getTime(),
\* as Array.prototype.sort reads it: a NaN result counts as 0.
SortCompare(a, b) ==
    IF a.createdAt = EmptyDate \/ b.createdAt = EmptyDate THEN 0
    ELSE b.createdAt - a.createdAt

Reverse(s) == [i \in 1..Len(s) |-> s[Len(s) + 1 - i]]

\* The length of the run that starts the array (V8, CountAndMakeRun).
RECURSIVE RunLength(_, _, _)
RunLength(s, descending, len) ==
    IF len = Len(s) THEN len
    ELSE LET order == SortCompare(s[len + 1], s[len]) IN
         IF (descending /\ order >= 0) \/ (~descending /\ order < 0) THEN len
         ELSE RunLength(s, descending, len + 1)

\* Where pivot goes in the sorted prefix (V8, BinaryInsertionSort); 0-based bounds.
RECURSIVE InsertionPoint(_, _, _, _)
InsertionPoint(sorted, pivot, left, right) ==
    IF left >= right THEN left
    ELSE LET mid == left + ((right - left) \div 2) IN
         IF SortCompare(pivot, sorted[mid + 1]) < 0
           THEN InsertionPoint(sorted, pivot, left, mid)
           ELSE InsertionPoint(sorted, pivot, mid + 1, right)

RECURSIVE InsertAll(_, _)
InsertAll(sorted, rest) ==
    IF rest = <<>> THEN sorted
    ELSE LET at == InsertionPoint(sorted, Head(rest), 0, Len(sorted)) IN
         InsertAll(SubSeq(sorted, 1, at) \o <<Head(rest)>>
                       \o SubSeq(sorted, at + 1, Len(sorted)),
                   Tail(rest))

\* sessions.sort(comparator): the sort Node runs on an array of fewer than 64
\* elements: the leading run is found (and reversed when strictly descending),
\* the other elements are inserted by binary search.
ArraySort(s) ==
    IF Len(s) < 2 THEN s
    ELSE LET descending == SortCompare(s[2], s[1]) < 0
             run == RunLength(s, descending, 2)
             prefix == IF descending THEN Reverse(SubSeq(s, 1, run))
                       ELSE SubSeq(s, 1, run)
         IN InsertAll(prefix, SubSeq(s, run + 1, Len(s)))

\* listSessions(): listCliSessions() is called outside the try block,
\* listVSCodeSessions() inside it.
ListSessionsOf(cli, vscode) ==
    IF cli.threw THEN ListThrew
    ELSE ListOk(ArraySort(cli.list \o (IF vscode.threw THEN <<>> ELSE vscode.list)))

\* The session directory named id, or none.
HasDir(root, dirs, id) == root = "dir" /\ \E i \in DOMAIN dirs : dirs[i].name = id

DirOf(dirs, id) == dirs[CHOOSE i \in DOMAIN dirs : dirs[i].name = id]

\* getSession(sessionId), from line 171 on: the CLI reader
GetCliSession(root, dirs, id) ==
    IF ~HasDir(root, dirs, id) THEN DetailOk(Null)
    ELSE LET d == DirOf(dirs, id) IN
         CASE d.ws \in {"absent", "unreadable"} -> DetailOk(Null)
           [] d.plan = "unreadable" -> DetailThrew    \* readFileSync(planPath) is unguarded
           [] d.ws = "null" -> DetailThrew            \* ws.id of null, at the return
           [] OTHER -> DetailOk([isNull |-> FALSE, id |-> id, source |-> "cli",
                                 createdAt |-> d.created, updatedAt |-> d.updated,
                                 events |-> IF d.events.state = "file"
                                            THEN ParseEventLines(d.events.lines)
                                            ELSE <<>>])

\* getSession(sessionId): what it returns and which adapters it consulted
GetSessionOf(root, dirs, db, index, files, id) ==
    LET member == IsVSCodeSession(db, index, id)
        vs == GetVSCodeSession(files, id)
        cli == GetCliSession(root, dirs, id)
    IN IF member /\ ~vs.threw
         THEN [threw |-> FALSE, detail |-> vs.detail, viaCli |-> FALSE]
         ELSE [threw |-> cli.threw, detail |-> cli.detail, viaCli |-> TRUE]

---------------------------------------------------------------------------
(* The calls of sessions.ts and vscode-sessions.ts, and the environment *)

MaxElapse == 2         \* the clock of the session specifications advances MaxElapse times

\* One clock step of the session specifications: half a cache TTL.
ElapseMs == CACHE_TTL \div 2

NoSessOp == [op |-> "init", id |-> "", threw |-> FALSE, list |-> <<>>, detail |-> Null,
             member |-> FALSE, scans |-> 0, viaCli |-> FALSE, at |-> 0,
             prevValid |-> FALSE, prevAt |-> 0, prevList |-> <<>>]

otherVars == <<cache, clearLog, ccVars>>

\* listSessions().  scans counts the adapter listers the call ran.
ListSessions ==
    LET cli == ListCliSessions(cliRoot, cliDirs)
        vscode == ListVSCodeSessions(vsDb, vsIndex)
        r == ListSessionsOf(cli, vscode)
    IN /\ lastOp' = [NoSessOp EXCEPT !.op = "listSessions", !.threw = r.threw,
                        !.list = r.list, !.scans = IF cli.threw THEN 1 ELSE 2,
                        !.at = now, !.prevValid = listLog.valid,
                        !.prevAt = listLog.at, !.prevList = listLog.ret]
       /\ listLog' = IF r.threw THEN NoList
                     ELSE [valid |-> TRUE, at |-> now, ret |-> r.list]
       /\ UNCHANGED <<now, fsVars, otherVars, auxVars>>

\* getSession(sessionId)
GetSession(id) ==
    LET r == GetSessionOf(cliRoot, cliDirs, vsDb, vsIndex, vsFiles, id)
    IN /\ lastOp' = [NoSessOp EXCEPT !.op = "getSession", !.id = id, !.threw = r.threw,
                        !.detail = r.detail, !.viaCli = r.viaCli, !.at = now]
       /\ UNCHANGED <<now, fsVars, listLog, otherVars, auxVars>>

\* listVSCodeSessions()
CallListVSCodeSessions ==
    LET r == ListVSCodeSessions(vsDb, vsIndex)
    IN /\ lastOp' = [NoSessOp EXCEPT !.op = "listVSCodeSessions", !.threw = r.threw,
                        !.list = r.list, !.scans = 1, !.at = now]
       /\ UNCHANGED <<now, fsVars, listLog, otherVars, auxVars>>

\* getVSCodeSession(sessionId)
CallGetVSCodeSession(id) ==
    LET r == GetVSCodeSession(vsFiles, id)
    IN /\ lastOp' = [NoSessOp EXCEPT !.op = "getVSCodeSession", !.id = id,
                        !.threw = r.threw, !.detail = r.detail, !.at = now]
       /\ UNCHANGED <<now, fsVars, listLog, otherVars, auxVars>>

\* Half a cache TTL passes.
Elapse ==
    /\ now < MaxElapse * ElapseMs
    /\ now' = now + ElapseMs
    /\ UNCHANGED <<lastOp, listLog, fsVars, otherVars, auxVars>>

\* What the environment does to the files between two calls.
EnvOp == [NoSessOp EXCEPT !.op = "env"]

PlanKinds == {"absent", "file", "unreadable"}

NoEvents == [state |-> "absent", lines |-> <<>>]

\* The session-state root is created, removed, or made unreadable.
SetCliRoot(r) ==
    /\ r # cliRoot
    /\ cliRoot' = r
    /\ cliDirs' = <<>>
    /\ lastOp' = EnvOp
    /\ listLog' = NoList
    /\ UNCHANGED <<now, vsDb, vsIndex, vsFiles, otherVars, auxVars>>

\* A session directory is created (last in readdir order) or rewritten in place.
PutCliDir(d) ==
    /\ cliRoot = "dir"
    /\ d \notin {cliDirs[i] : i \in DOMAIN cliDirs}
    /\ cliDirs' = IF \E i \in DOMAIN cliDirs : cliDirs[i].name = d.name
                    THEN [i \in DOMAIN cliDirs |->
                             IF cliDirs[i].name = d.name THEN d ELSE cliDirs[i]]
                    ELSE Append(cliDirs, d)
    /\ lastOp' = EnvOp
    /\ listLog' = NoList
    /\ UNCHANGED <<now, cliRoot, vsDb, vsIndex, vsFiles, otherVars, auxVars>>

\* A session directory is removed.
RemoveCliDir(id) ==
    /\ HasDir(cliRoot, cliDirs, id)
    /\ cliDirs' = SelectSeq(cliDirs, LAMBDA d : d.name # id)
    /\ lastOp' = EnvOp
    /\ listLog' = NoList
    /\ UNCHANGED <<now, cliRoot, vsDb, vsIndex, vsFiles, otherVars, auxVars>>

\* state.vscdb is created, removed or corrupted.
SetVsDb(state) ==
    /\ state # vsDb
    /\ vsDb' = state
    /\ vsIndex' = <<>>
    /\ lastOp' = EnvOp
    /\ listLog' = NoList
    /\ UNCHANGED <<now, cliRoot, cliDirs, vsFiles, otherVars, auxVars>>

\* VS Code adds an index entry (last) or rewrites the one of the same session.
PutVsEntry(e) ==
    /\ vsDb = "ok"
    /\ e \notin {vsIndex[i] : i \in DOMAIN vsIndex}
    /\ vsIndex' = IF \E i \in DOMAIN vsIndex : vsIndex[i].sessionId = e.sessionId
                    THEN [i \in DOMAIN vsIndex |->
                             IF vsIndex[i].sessionId = e.sessionId THEN e ELSE vsIndex[i]]
                    ELSE Append(vsIndex, e)
    /\ lastOp' = EnvOp
    /\ listLog' = NoList
    /\ UNCHANGED <<now, cliRoot, cliDirs, vsDb, vsFiles, otherVars, auxVars>>

\* VS Code drops an index entry.
RemoveVsEntry(id) ==
    /\ \E i \in DOMAIN vsIndex : vsIndex[i].sessionId = id
    /\ vsIndex' = SelectSeq(vsIndex, LAMBDA e : e.sessionId # id)
    /\ lastOp' = EnvOp
    /\ listLog' = NoList
    /\ UNCHANGED <<now, cliRoot, cliDirs, vsDb, vsFiles, otherVars, auxVars>>

\* The per-session JSON file of id is written, removed or corrupted.
SetVsFile(id, kind) ==
    /\ FileOf(vsFiles, id) # kind
    /\ vsFiles' = [i \in (DOMAIN vsFiles) \cup {id} |-> IF i = id THEN kind ELSE vsFiles[i]]
    /\ lastOp' = EnvOp
    /\ listLog' = NoList
    /\ UNCHANGED <<now, cliRoot, cliDirs, vsDb, vsIndex, otherVars, auxVars>>

---------------------------------------------------------------------------
(* SpecSessions: one session id on disk, every state of its files *)

\* The events.jsonl contents the specification draws from.
EventFiles ==
    {NoEvents, [state |-> "unreadable", lines |-> <<>>]}
      \cup {[state |-> "file", lines |-> l] :
              l \in {<<"bad", "user">>, <<"other", "blank">>}}

\* The session directories of s1.
DeepDirs ==
    {[name |-> "s1", ws |-> w, created |-> c, updated |-> c, events |-> e, plan |-> p] :
        w \in WsKinds, c \in {EmptyDate, 1}, e \in EventFiles, p \in PlanKinds}

\* The index entries of s1.
DeepEntries ==
    {[sessionId |-> "s1", isEmpty |-> b, startTime |-> t, lastMessageDate |-> m,
      endTime |-> 0] : b \in BOOLEAN, t \in {0, 2}, m \in {1}}

InitSessions ==
    /\ cache = EmptyMap
    /\ clearLog = NoClear
    /\ now = 0
    /\ lastOp = NoSessOp
    /\ listLog = NoList
    /\ cliRoot = "missing" /\ cliDirs = <<>>
    /\ vsDb = "absent" /\ vsIndex = <<>>
    /\ vsFiles = [i \in Ids |-> "absent"]
    /\ NoClaude
    /\ NoAux

NextSessions ==
    \/ ListSessions
    \/ \E id \in Ids : GetSession(id)
    \/ CallListVSCodeSessions
    \/ \E id \in Ids : CallGetVSCodeSession(id)
    \/ Elapse
    \/ \E r \in {"missing", "unreadable", "dir"} : SetCliRoot(r)
    \/ \E d \in DeepDirs : (d.ws = "ok" \/ d.created = EmptyDate) /\ PutCliDir(d)
    \/ RemoveCliDir("s1")
    \/ \E state \in {"absent", "unreadable", "ok"} : SetVsDb(state)
    \/ \E e \in DeepEntries : PutVsEntry(e)
    \/ RemoveVsEntry("s1")
    \/ \E kind \in FileKinds : SetVsFile("s1", kind)

SpecSessions == InitSessions /\ [][NextSessions]_vars

---------------------------------------------------------------------------
(* Claims about listSessions, getSession and the VS Code adapter *)

\* C4: two calls of listSessions() less than CACHE_TTL apart, with no clearCache()
\* and no file change in between, return the same result, and the second call runs
\* no adapter lister.
C4_SecondListIsCached ==
    (/\ lastOp.op = "listSessions"
     /\ lastOp.prevValid
     /\ lastOp.at - lastOp.prevAt < CACHE_TTL)
       => /\ ~lastOp.threw
          /\ lastOp.list = lastOp.prevList
          /\ lastOp.scans = 0

\* C6: getSession(id) returns exactly what the loader of the first adapter that
\* accepts id returns (VS Code before CLI) and consults no later adapter; an id no
\* adapter accepts yields null.
C6_FirstMatchLoads ==
    lastOp.op = "getSession" =>
        LET vs == GetVSCodeSession(vsFiles, lastOp.id)
            cli == GetCliSession(cliRoot, cliDirs, lastOp.id)
        IN IF IsVSCodeSession(vsDb, vsIndex, lastOp.id)
             THEN /\ ~lastOp.viaCli
                  /\ lastOp.threw = vs.threw
                  /\ lastOp.detail = vs.detail
             ELSE IF HasDir(cliRoot, cliDirs, lastOp.id)
                    THEN lastOp.threw = cli.threw /\ lastOp.detail = cli.detail
                    ELSE ~lastOp.threw /\ lastOp.detail = Null

\* C7: every operation returns a value in every state of the files; none raises.
C7_NeverRaises == ~lastOp.threw

\* C8: a session whose JSON file is larger than MAX_FILE_SIZE is neither listed by
\* listVSCodeSessions() nor loaded by getVSCodeSession(id).
C8_BigFileIsAbsent ==
    /\ lastOp.op = "listVSCodeSessions" =>
          \A i \in DOMAIN lastOp.list : FileOf(vsFiles, lastOp.list[i].id) # "big"
    /\ (lastOp.op = "getVSCodeSession" /\ FileOf(vsFiles, lastOp.id) = "big") =>
          (~lastOp.threw /\ lastOp.detail = Null)

\* The events.jsonl of a session directory holds a user.message event.
HasUserMessage(d) ==
    /\ d.events.state = "file"
    /\ \E i \in DOMAIN d.events.lines : d.events.lines[i] = "user"

\* C10: a CLI session directory with workspace.yaml and no user.message event (no
\* events.jsonl, or events of other types only) is not listed.
C10_NoUserMessageNotListed ==
    (lastOp.op = "listSessions" /\ ~lastOp.threw) =>
        \A i \in DOMAIN lastOp.list :
            lastOp.list[i].source = "cli" =>
                \E j \in DOMAIN cliDirs :
                    /\ cliDirs[j].ws = "ok"
                    /\ cliDirs[j].name = lastOp.list[i].id
                    /\ HasUserMessage(cliDirs[j])

\* C16: every SessionMeta and SessionDetail an adapter produces has
\* createdAt <= updatedAt when both are non-empty.
C16_CreatedBeforeUpdated ==
    /\ lastOp.op \in {"listSessions", "listVSCodeSessions"} =>
          \A i \in DOMAIN lastOp.list :
              (/\ lastOp.list[i].createdAt # EmptyDate
               /\ lastOp.list[i].updatedAt # EmptyDate)
                 => lastOp.list[i].createdAt <= lastOp.list[i].updatedAt
    /\ (lastOp.op \in {"getSession", "getVSCodeSession"} /\ ~lastOp.detail.isNull) =>
          ((/\ lastOp.detail.createdAt # EmptyDate
            /\ lastOp.detail.updatedAt # EmptyDate)
              => lastOp.detail.createdAt <= lastOp.detail.updatedAt)

---------------------------------------------------------------------------
(* SpecMerge: up to two sessions per adapter, every createdAt, for the merge *)

\* Well-formed session directories, with any created_at and updated_at or none.
WideDirs ==
    {[name |-> id, ws |-> "ok", created |-> c, updated |-> u, events |-> NoEvents,
      plan |-> "absent"] : id \in Ids, c \in 0..MaxDate, u \in 0..MaxDate}

\* Index entries of non-empty sessions, with or without timing.
WideEntries ==
    {[sessionId |-> id, isEmpty |-> FALSE, startTime |-> t, lastMessageDate |-> 0,
      endTime |-> 0] : id \in Ids, t \in 0..MaxDate}

InitMerge ==
    /\ cache = EmptyMap
    /\ clearLog = NoClear
    /\ now = 0
    /\ lastOp = NoSessOp
    /\ listLog = NoList
    /\ cliRoot = "dir" /\ cliDirs = <<>>
    /\ vsDb = "ok" /\ vsIndex = <<>>
    /\ vsFiles = [i \in Ids |-> "ok"]
    /\ NoClaude
    /\ NoAux

NextMerge ==
    \/ ListSessions
    \/ \E d \in WideDirs : PutCliDir(d)
    \/ \E id \in Ids : RemoveCliDir(id)
    \/ \E e \in WideEntries : PutVsEntry(e)
    \/ \E id \in Ids : RemoveVsEntry(id)

SpecMerge == InitMerge /\ [][NextMerge]_vars

\* a and b hold the same elements the same number of times.
IsPermutation(a, b) ==
    /\ Len(a) = Len(b)
    /\ \A i \in DOMAIN a :
          Cardinality({j \in DOMAIN a : a[j] = a[i]})
            = Cardinality({j \in DOMAIN b : b[j] = a[i]})

\* C5: listSessions() returns a permutation of the adapters' lists with createdAt
\* non-increasing (among the sessions whose createdAt is known), and the same order
\* whichever way round the adapters' results are concatenated.
C5_SortedWhateverTheOrder ==
    (lastOp.op = "listSessions" /\ ~lastOp.threw) =>
        LET cli == ListCliSessions(cliRoot, cliDirs).list
            vscode == ListVSCodeSessions(vsDb, vsIndex).list
        IN /\ IsPermutation(lastOp.list, cli \o vscode)
           /\ \A i, j \in DOMAIN lastOp.list :
                 (/\ i < j
                  /\ lastOp.list[i].createdAt # EmptyDate
                  /\ lastOp.list[j].createdAt # EmptyDate)
                    => lastOp.list[i].createdAt >= lastOp.list[j].createdAt
           /\ lastOp.list = ArraySort(vscode \o cli)

---------------------------------------------------------------------------
(* claude-code-sessions.ts *)

\* A line of a transcript: a ClaudeCodeEntry, or a malformed or blank line.
\* timestamp 0 is no timestamp, content "" is no message content.
Entry(uuid, type, side, ts, content) ==
    [uuid |-> uuid, type |-> type, isSidechain |-> side, timestamp |-> ts,
     content |-> content]

\* A parser that gives up on the whole file at the first malformed line.
ParseClaudeCodeJsonl_AbortOnBad(file) ==
    IF file.state # "ok" THEN <<>>
    ELSE IF \E i \in DOMAIN file.lines : file.lines[i].type = "bad" THEN <<>>
    ELSE SelectSeq(file.lines, LAMBDA l : l.type # "blank")

\* parseClaudeCodeJsonl(filePath): the entries of the lines that parse; none when
\* the file is larger than MAX_FILE_SIZE or cannot be read.
ParseClaudeCodeJsonl(file) ==
    IF file.state # "ok" THEN <<>>
    ELSE SelectSeq(file.lines, LAMBDA l : l.type \notin {"bad", "blank"})

\* claudeCodeEntriesToEvents(entries), for entries whose content is a string
RECURSIVE ClaudeCodeEntriesToEvents(_)
ClaudeCodeEntriesToEvents(entries) ==
    IF entries = <<>> THEN <<>>
    ELSE LET entry == Head(entries)
             rest == ClaudeCodeEntriesToEvents(Tail(entries))
         IN IF entry.isSidechain THEN rest
            ELSE IF entry.type = "user" /\ entry.content # ""
              THEN <<[type |-> "user.message", id |-> entry.uuid,
                      timestamp |-> entry.timestamp]>> \o rest
            ELSE IF entry.type = "assistant" /\ entry.content # ""
              THEN <<[type |-> "assistant.message", id |-> entry.uuid,
                      timestamp |-> entry.timestamp]>> \o rest
            ELSE rest

\* The entries both scan and loader take their timestamps from.
TimedEntries(entries) ==
    SelectSeq(entries, LAMBDA e : e.type \in {"user", "assistant"} /\ e.timestamp # 0)

SeqMin(q) == CHOOSE x \in {q[i] : i \in DOMAIN q} : \A i \in DOMAIN q : x <= q[i]
SeqMax(q) == CHOOSE x \in {q[i] : i \in DOMAIN q} : \A i \in DOMAIN q : x >= q[i]

Timestamps(entries) ==
    LET timed == TimedEntries(entries) IN [i \in DOMAIN timed |-> timed[i].timestamp]

\* The hasUserMessage test of _scanClaudeCodeSessions.
HasUserEntry(entries) ==
    \E i \in DOMAIN entries : entries[i].type = "user" /\ entries[i].content # ""

\* Whether _scanClaudeCodeSessions lists the transcript.
IsListed(file) ==
    LET entries == ParseClaudeCodeJsonl(file)
    IN /\ entries # <<>>
       /\ TimedEntries(entries) # <<>>
       /\ HasUserEntry(entries)

ClaudeMeta(file) ==
    LET ts == Timestamps(ParseClaudeCodeJsonl(file))
    IN [id |-> file.id, source |-> "claude-code", createdAt |-> SeqMin(ts),
        updatedAt |-> SeqMax(ts)]

\* _scanClaudeCodeSessions()
ScanClaudeCodeSessions(root, files) ==
    IF root # "dir" THEN <<>>
    ELSE LET listed == SelectSeq(files, IsListed)
         IN [i \in DOMAIN listed |-> ClaudeMeta(listed[i])]

HasTranscript(root, files, id) ==
    root = "dir" /\ \E i \in DOMAIN files : files[i].id = id

\* isClaudeCodeSession(sessionId)
IsClaudeCodeSession(known, root, files, id) ==
    id \in known \/ HasTranscript(root, files, id)

\* getClaudeCodeSession(sessionId)
GetClaudeCodeSessionOf(root, files, id) ==
    IF ~HasTranscript(root, files, id) THEN Null
    ELSE LET file == CHOOSE f \in {files[i] : i \in DOMAIN files} : f.id = id
             entries == ParseClaudeCodeJsonl(file)
             ts == Timestamps(entries)
         IN IF entries = <<>> THEN Null
            ELSE [isNull |-> FALSE, id |-> id, source |-> "claude-code",
                  createdAt |-> IF ts = <<>> THEN EmptyDate ELSE SeqMin(ts),
                  updatedAt |-> IF ts = <<>> THEN EmptyDate ELSE SeqMax(ts),
                  events |-> ClaudeCodeEntriesToEvents(entries)]

\* listClaudeCodeSessions(): cachedCall over the scan; the scan registers the ids
\* it lists in _knownClaudeIds.
ListClaudeCodeSessions ==
    LET key == "listClaudeCodeSessions"
        hit == CacheIsLive(cache, key, now)
        value == ScanClaudeCodeSessions(ccRoot, ccFiles)
    IN /\ lastOp' = [NoSessOp EXCEPT !.op = "listClaudeCodeSessions", !.at = now,
                        !.list = IF hit THEN cache[key].value ELSE value,
                        !.scans = IF hit THEN 0 ELSE 1]
       /\ cache' = IF hit THEN cache
                   ELSE CacheSet(cache, key, [value |-> value, expiresAt |-> now + CACHE_TTL])
       /\ knownClaudeIds' = IF hit THEN knownClaudeIds
                            ELSE knownClaudeIds \cup {value[i].id : i \in DOMAIN value}
       /\ clearLog' = [clearLog EXCEPT !.pending = @ \ {key}]
       /\ UNCHANGED <<now, fsVars, listLog, ccRoot, ccFiles, auxVars>>

\* getClaudeCodeSession(sessionId)
GetClaudeCodeSession(id) ==
    /\ lastOp' = [NoSessOp EXCEPT !.op = "getClaudeCodeSession", !.id = id, !.at = now,
                     !.detail = GetClaudeCodeSessionOf(ccRoot, ccFiles, id)]
    /\ UNCHANGED <<now, fsVars, listLog, otherVars, auxVars>>

\* isClaudeCodeSession(sessionId)
CallIsClaudeCodeSession(id) ==
    /\ lastOp' = [NoSessOp EXCEPT !.op = "isClaudeCodeSession", !.id = id, !.at = now,
                     !.member = IsClaudeCodeSession(knownClaudeIds, ccRoot, ccFiles, id)]
    /\ UNCHANGED <<now, fsVars, listLog, otherVars, auxVars>>

\* ~/.claude/projects is created, removed, or made unreadable.
SetCcRoot(r) ==
    /\ r # ccRoot
    /\ ccRoot' = r
    /\ ccFiles' = <<>>
    /\ lastOp' = EnvOp
    /\ UNCHANGED <<now, fsVars, listLog, cache, clearLog, knownClaudeIds, auxVars>>

\* Claude Code creates a transcript (last in readdir order), or the file of the
\* same id is replaced.
PutTranscript(file) ==
    /\ ccRoot = "dir"
    /\ file \notin {ccFiles[i] : i \in DOMAIN ccFiles}
    /\ ccFiles' = IF \E i \in DOMAIN ccFiles : ccFiles[i].id = file.id
                    THEN [i \in DOMAIN ccFiles |->
                             IF ccFiles[i].id = file.id THEN file ELSE ccFiles[i]]
                    ELSE Append(ccFiles, file)
    /\ lastOp' = EnvOp
    /\ UNCHANGED <<now, fsVars, listLog, cache, clearLog, ccRoot, knownClaudeIds, auxVars>>

\* Claude Code appends a line to a transcript.
AppendLine(id, line) ==
    /\ HasTranscript(ccRoot, ccFiles, id)
    /\ \E i \in DOMAIN ccFiles :
          /\ ccFiles[i].id = id
          /\ ccFiles[i].state = "ok"
          /\ ccFiles' = [ccFiles EXCEPT ![i].lines = Append(@, line)]
    /\ lastOp' = EnvOp
    /\ UNCHANGED <<now, fsVars, listLog, cache, clearLog, ccRoot, knownClaudeIds, auxVars>>

\* A transcript is deleted.
RemoveTranscript(id) ==
    /\ HasTranscript(ccRoot, ccFiles, id)
    /\ ccFiles' = SelectSeq(ccFiles, LAMBDA f : f.id # id)
    /\ lastOp' = EnvOp
    /\ UNCHANGED <<now, fsVars, listLog, cache, clearLog, ccRoot, knownClaudeIds, auxVars>>

---------------------------------------------------------------------------
(* SpecClaude: one transcript on disk, of up to MaxLines lines *)

MaxLines == 2          \* a transcript has at most MaxLines lines

\* The lines the specification appends to transcripts.
Lines ==
    {Entry("u1", "user", FALSE, 1, "text"),
     Entry("u2", "user", TRUE, 1, "text"),
     Entry("a1", "assistant", FALSE, 2, "text"),
     Entry("", "bad", FALSE, 0, "")}

\* The transcript files the specification creates.
Transcripts ==
    {[id |-> "s1", state |-> st, lines |-> <<>>] : st \in {"ok", "big", "unreadable"}}

\* The transcript of id has fewer than MaxLines lines.
HasRoom(id) ==
    \A i \in DOMAIN ccFiles : ccFiles[i].id = id => Len(ccFiles[i].lines) < MaxLines

InitClaude ==
    /\ cache = EmptyMap
    /\ clearLog = NoClear
    /\ now = 0
    /\ lastOp = NoSessOp
    /\ listLog = NoList
    /\ NoFiles
    /\ NoClaude
    /\ NoAux

NextClaude ==
    \/ ListClaudeCodeSessions
    \/ \E id \in Ids : GetClaudeCodeSession(id)
    \/ \E id \in Ids : CallIsClaudeCodeSession(id)
    \/ ClearCache
    \/ Elapse
    \/ \E r \in {"missing", "unreadable", "dir"} : SetCcRoot(r)
    \/ \E file \in Transcripts : PutTranscript(file)
    \/ \E line \in Lines : HasRoom("s1") /\ AppendLine("s1", line)
    \/ RemoveTranscript("s1")

SpecClaude == InitClaude /\ [][NextClaude]_vars

---------------------------------------------------------------------------
(* Claims about the Claude Code adapter *)

\* The transcript of id holds a user entry with content that is not a sidechain entry.
HasMainUserEntry(id) ==
    \E i \in DOMAIN ccFiles :
        /\ ccFiles[i].id = id
        /\ \E j \in DOMAIN ccFiles[i].lines :
              /\ ccFiles[i].lines[j].type = "user"
              /\ ccFiles[i].lines[j].content # ""
              /\ ~ccFiles[i].lines[j].isSidechain

\* C9: no event of the timeline getClaudeCodeSession returns comes from an entry
\* flagged isSidechain, and a scan lists no transcript whose only user entries are
\* sidechain entries.
C9_SidechainExcluded ==
    /\ lastOp.op = "getClaudeCodeSession" =>
          \A k \in DOMAIN lastOp.detail.events :
              \A i \in DOMAIN ccFiles : \A j \in DOMAIN ccFiles[i].lines :
                  (/\ ccFiles[i].id = lastOp.id
                   /\ ccFiles[i].lines[j].uuid = lastOp.detail.events[k].id)
                     => ~ccFiles[i].lines[j].isSidechain
    /\ (lastOp.op = "listClaudeCodeSessions" /\ lastOp.scans = 1) =>
          \A k \in DOMAIN lastOp.list : HasMainUserEntry(lastOp.list[k].id)

---------------------------------------------------------------------------
(* The active duration of a session (sessions.ts, vscode-sessions.ts,       *)
(* claude-code-sessions.ts)                                                 *)

MaxEvents == 5         \* a session has at most MaxEvents events

\* new Date(e.timestamp).getTime() of an event whose timestamp does not parse.
NaN == -1

MAX_GAP == 300000
VSCODE_MAX_GAP == 300000
CLAUDE_MAX_GAP == 300000

\* What getTime() gives for the events of a session: NaN, the epoch, or a later time.
TimeValues == {NaN, 0, 5000, 10000, 310000, 315000}

Min(a, b) == IF a <= b THEN a ELSE b

\* e inserted into the ascending sequence s, after the elements equal to it.
RECURSIVE InsertNumber(_, _)
InsertNumber(s, e) ==
    IF s = <<>> THEN <<e>>
    ELSE IF e < Head(s) THEN <<e>> \o s
    ELSE <<Head(s)>> \o InsertNumber(Tail(s), e)

SortNumbers_Unsorted(s) == s

\* Array.prototype.sort((a, b) => a - b) on numbers
RECURSIVE SortNumbers(_)
SortNumbers(s) ==
    IF s = <<>> THEN <<>>
    ELSE InsertNumber(SortNumbers(SubSeq(s, 1, Len(s) - 1)), s[Len(s)])

GapSum_Uncapped(ts, maxGap) ==
    IF Len(ts) >= 2 THEN ts[Len(ts)] - ts[1] ELSE 0

\* The loop: duration += Math.min(timestamps[i] - timestamps[i - 1], MAX_GAP)
RECURSIVE GapSum(_, _)
GapSum(ts, maxGap) ==
    IF Len(ts) < 2 THEN 0
    ELSE GapSum(SubSeq(ts, 1, Len(ts) - 1), maxGap)
           + Min(ts[Len(ts)] - ts[Len(ts) - 1], maxGap)

\* getSession: the duration of the events of a CLI session
CliDuration(times) ==
    GapSum(SortNumbers(SelectSeq(times, LAMBDA t : t # NaN /\ t > 0)), MAX_GAP)

\* getVSCodeSession: the duration of the events of a VS Code session
VSCodeDuration(times) ==
    GapSum(SortNumbers(SelectSeq(times, LAMBDA t : t # NaN /\ t > 0)), VSCODE_MAX_GAP)

\* isValidTimestamp(t)
IsValidTimestamp(t) == t # NaN /\ t > 0

\* getClaudeCodeSession: the duration of the events of a Claude Code session
ClaudeDuration(times) ==
    GapSum(SortNumbers(SelectSeq(times, IsValidTimestamp)), CLAUDE_MAX_GAP)

Adapters == {"cli", "vscode", "claude-code"}

DurationOf(adapter, times) ==
    CASE adapter = "cli" -> CliDuration(times)
      [] adapter = "vscode" -> VSCodeDuration(times)
      [] adapter = "claude-code" -> ClaudeDuration(times)

NoDurationOp == [op |-> "init", adapter |-> "", duration |-> 0, events |-> <<>>,
                 eventCount |-> 0]

\* A loader that leaves the events without a usable timestamp out of the detail.
ComputeDuration_DropsUntimed(adapter) ==
    /\ lastOp' = [op |-> "duration", adapter |-> adapter,
                  duration |-> DurationOf(adapter, timestamps),
                  events |-> SelectSeq(timestamps, IsValidTimestamp),
                  eventCount |-> Len(SelectSeq(timestamps, IsValidTimestamp))]
    /\ UNCHANGED <<cache, clearLog, now, fsVars, listLog, ccVars, auxVars>>

\* A session of the adapter is loaded: its duration is computed over the events,
\* and the detail returns the events as they are, each counted in eventCounts.
ComputeDuration(adapter) ==
    /\ lastOp' = [op |-> "duration", adapter |-> adapter,
                  duration |-> DurationOf(adapter, timestamps),
                  events |-> timestamps,
                  eventCount |-> Len(timestamps)]
    /\ UNCHANGED <<cache, clearLog, now, fsVars, listLog, ccVars, auxVars>>

\* The same events in another order: two neighbours change places.
Reorder(i) ==
    /\ i \in 1..(Len(timestamps) - 1)
    /\ timestamps[i] # timestamps[i + 1]
    /\ timestamps' = [timestamps EXCEPT ![i] = timestamps[i + 1],
                                        ![i + 1] = timestamps[i]]
    /\ lastOp' = [NoDurationOp EXCEPT !.op = "reorder"]
    /\ UNCHANGED <<cache, clearLog, now, fsVars, listLog, ccVars, subject, searchVars, textVars>>

\* One more event with the timestamp of event i.
InsertDuplicate(i) ==
    /\ i \in DOMAIN timestamps
    /\ Len(timestamps) < MaxEvents
    /\ timestamps' = Append(timestamps, timestamps[i])
    /\ lastOp' = [NoDurationOp EXCEPT !.op = "duplicate"]
    /\ UNCHANGED <<cache, clearLog, now, fsVars, listLog, ccVars, subject, searchVars, textVars>>

InitDuration ==
    /\ cache = EmptyMap
    /\ clearLog = NoClear
    /\ now = 0
    /\ lastOp = NoDurationOp
    /\ listLog = NoList
    /\ NoFiles
    /\ NoClaude
    /\ timestamps \in UNION {[1..n -> TimeValues] : n \in 0..MaxEvents}
    /\ subject = NoSubject
    /\ NoSearch
    /\ NoText

NextDuration ==
    \/ \E adapter \in Adapters : ComputeDuration(adapter)
    \/ \E i \in 1..MaxEvents : Reorder(i)
    \/ \E i \in 1..MaxEvents : InsertDuplicate(i)

SpecDuration == InitDuration /\ [][NextDuration]_vars

---------------------------------------------------------------------------
(* Claims about the duration *)

SetMax(S) == CHOOSE x \in S : \A y \in S : y <= x

\* The reference value: over the distinct times in ascending order, the sum of the
\* gaps between neighbours, each gap counted as at most 300000.
RECURSIVE RefDuration(_)
RefDuration(S) ==
    IF Cardinality(S) < 2 THEN 0
    ELSE LET last == SetMax(S)
             rest == S \ {last}
         IN RefDuration(rest) + Min(last - SetMax(rest), 300000)

Values(times) == {times[i] : i \in DOMAIN times}

\* C11 (amended): the duration every adapter reports is the reference value of the
\* timestamps that parse and are after the epoch; the three adapters agree on the
\* same timestamps, and the duration is never negative.
C11_DurationIsReference ==
    lastOp.op = "duration" =>
        /\ lastOp.duration = RefDuration({t \in Values(timestamps) : t # NaN /\ t > 0})
        /\ lastOp.duration >= 0
        /\ \A a \in Adapters : DurationOf(a, timestamps) = lastOp.duration

\* The spec's example, whose first timestamp is the epoch: the adapters report
\* 310000 for it.
C11_Witness ==
    /\ lastOp.op = "duration"
    /\ timestamps = <<0, 5000, 10000, 310000, 315000>>
    /\ lastOp.duration = 310000

\* C11 as stated: for every sequence of timestamps (0 included) the reported
\* duration is the reference value of all of them.
C11_AsStated ==
    (lastOp.op = "duration" /\ NaN \notin Values(timestamps)) =>
        lastOp.duration = RefDuration(Values(timestamps))

\* C12: reordering the timestamps, or adding a duplicate of one of them, leaves the
\* duration of every adapter unchanged.
C12_OrderAndDuplicatesIgnored ==
    [][lastOp'.op \in {"reorder", "duplicate"} =>
          \A a \in Adapters : DurationOf(a, timestamps') = DurationOf(a, timestamps)]_vars

\* Timestamps out of order, one of them twice, with a positive duration.
C12_Witness ==
    /\ lastOp.op = "duplicate"
    /\ \E i \in 1..(Len(timestamps) - 1) :
          /\ timestamps[i] > timestamps[i + 1]
          /\ timestamps[i + 1] > 0
    /\ CliDuration(timestamps) > 0

---------------------------------------------------------------------------
(* Session status: detectStatus (sessions.ts), deriveStatus                 *)
(* (vscode-sessions.ts), detectClaudeCodeStatus (claude-code-sessions.ts)   *)

MaxTail == 6           \* the last 2 KB of events.jsonl hold at most MaxTail lines

DB_FRESH_MS == 600000
EVENTS_FRESH_MS == 300000
TAIL_LINES == 5
VSCODE_FRESH_MS == 600000
CLAUDE_FRESH_MS == 300000

\* The last n elements of s.
LastN(s, n) == IF Len(s) <= n THEN s ELSE SubSeq(s, Len(s) - n + 1, Len(s))

IsAbort(line) == line \in {"abortUser", "abortOther"}

DetectStatus_AbortFirst(dir, t) ==
    LET aborts == SelectSeq(LastN(SelectSeq(dir.tail, LAMBDA l : l # "blank"), TAIL_LINES),
                            IsAbort)
    IN IF dir.events = "file" /\ aborts # <<>>
         THEN IF Head(aborts) = "abortUser" THEN "completed" ELSE "error"
       ELSE IF dir.db = "file" /\ t - dir.dbMtime < DB_FRESH_MS THEN "running"
       ELSE IF dir.events = "file" /\ t - dir.eventsMtime < EVENTS_FRESH_MS THEN "running"
       ELSE "completed"

\* detectStatus(sessionDir, _updatedAt) at time t.  A file that is "unreadable"
\* exists and makes statSync, openSync or readSync throw; tail is the lines of the
\* last 2048 bytes of events.jsonl.
DetectStatus(dir, t) ==
    IF dir.db = "unreadable" THEN "completed"
    ELSE IF dir.db = "file" /\ t - dir.dbMtime < DB_FRESH_MS THEN "running"
    ELSE IF dir.events # "file" THEN "completed"
    ELSE LET lines == SelectSeq(dir.tail, LAMBDA l : l # "blank")
             aborts == SelectSeq(LastN(lines, TAIL_LINES), IsAbort)
         IN IF aborts # <<>>
              THEN IF Head(aborts) = "abortUser" THEN "completed" ELSE "error"
            ELSE IF t - dir.eventsMtime < EVENTS_FRESH_MS THEN "running"
            ELSE "completed"

DeriveStatus_Inclusive(index, t) ==
    IF index.endTime # 0 THEN "completed"
    ELSE IF index.startTime = 0 THEN "completed"
    ELSE IF t - OrElse(index.lastMessageDate, index.startTime) <= VSCODE_FRESH_MS
      THEN "running" ELSE "completed"

\* deriveStatus(index) at time t; a time of 0 is an absent (or zero) field.
DeriveStatus(index, t) ==
    IF index.endTime # 0 THEN "completed"
    ELSE IF index.startTime = 0 THEN "completed"
    ELSE IF t - OrElse(index.lastMessageDate, index.startTime) < VSCODE_FRESH_MS
      THEN "running" ELSE "completed"

DetectClaudeCodeStatus_StatFailsRunning(file, t) ==
    IF file.stat = "fails" \/ t - file.mtimeMs < CLAUDE_FRESH_MS
      THEN "running" ELSE "completed"

\* detectClaudeCodeStatus(filePath) at time t
DetectClaudeCodeStatus(file, t) ==
    IF file.stat = "ok" /\ t - file.mtimeMs < CLAUDE_FRESH_MS
      THEN "running" ELSE "completed"

\* Date.now() in the status specification: late enough for every age below.
StatusNow == 2 * DB_FRESH_MS

\* Modification times whose age at StatusNow is just below, and exactly, limit.
MtimesAround(limit) == {StatusNow - limit + 1, StatusNow - limit}

TailLines == {"abortUser", "abortOther", "other", "blank"}

\* Session directories: session.db and events.jsonl absent, unreadable or a file
\* of some age; the tail lines are abort events (reason "user initiated" or
\* another), other or unparseable lines, and blank lines.
StatusDirs ==
    LET dbs == {[db |-> "absent", dbMtime |-> 0], [db |-> "unreadable", dbMtime |-> 0]}
                 \cup {[db |-> "file", dbMtime |-> m] : m \in MtimesAround(DB_FRESH_MS)}
        evs == {[events |-> "absent", eventsMtime |-> 0, tail |-> <<>>],
                [events |-> "unreadable", eventsMtime |-> 0, tail |-> <<>>]}
                 \cup {[events |-> "file", eventsMtime |-> m, tail |-> l] :
                         m \in MtimesAround(EVENTS_FRESH_MS),
                         l \in UNION {[1..n -> TailLines] : n \in 0..MaxTail}}
    IN {[kind |-> "cli", db |-> d.db, dbMtime |-> d.dbMtime, events |-> e.events,
         eventsMtime |-> e.eventsMtime, tail |-> e.tail] : d \in dbs, e \in evs}

\* Index entries: each time absent (0), long ago (1) or around the freshness limit.
StatusEntries ==
    {[kind |-> "vscode", startTime |-> st, endTime |-> et, lastMessageDate |-> lm] :
        st \in {0, 1} \cup MtimesAround(VSCODE_FRESH_MS),
        et \in {0, StatusNow},
        lm \in {0, 1} \cup MtimesAround(VSCODE_FRESH_MS)}

StatusFiles ==
    {[kind |-> "claude", stat |-> st, mtimeMs |-> m] :
        st \in {"ok", "fails"}, m \in MtimesAround(CLAUDE_FRESH_MS)}

StatusOp(op, status) == [op |-> op, status |-> status]

\* listCliSessions / getSession: status: detectStatus(dir, ...)
CallDetectStatus ==
    /\ subject.kind = "cli"
    /\ lastOp' = StatusOp("detectStatus", DetectStatus(subject, now))
    /\ UNCHANGED <<cache, clearLog, now, fsVars, listLog, ccVars, auxVars>>

\* listVSCodeSessions / getVSCodeSession: status: deriveStatus(entry)
CallDeriveStatus ==
    /\ subject.kind = "vscode"
    /\ lastOp' = StatusOp("deriveStatus", DeriveStatus(subject, now))
    /\ UNCHANGED <<cache, clearLog, now, fsVars, listLog, ccVars, auxVars>>

\* _scanClaudeCodeSessions: status: detectClaudeCodeStatus(jsonlPath)
ClaudeListStatus ==
    /\ subject.kind = "claude"
    /\ lastOp' = StatusOp("claudeListStatus", DetectClaudeCodeStatus(subject, now))
    /\ UNCHANGED <<cache, clearLog, now, fsVars, listLog, ccVars, auxVars>>

\* getClaudeCodeSession: status: detectClaudeCodeStatus(jsonlPath)
ClaudeDetailStatus ==
    /\ subject.kind = "claude"
    /\ lastOp' = StatusOp("claudeDetailStatus", DetectClaudeCodeStatus(subject, now))
    /\ UNCHANGED <<cache, clearLog, now, fsVars, listLog, ccVars, auxVars>>

InitStatus ==
    /\ cache = EmptyMap
    /\ clearLog = NoClear
    /\ now = StatusNow
    /\ lastOp = StatusOp("init", "")
    /\ listLog = NoList
    /\ NoFiles
    /\ NoClaude
    /\ timestamps = <<>>
    /\ NoSearch
    /\ NoText
    /\ subject \in StatusDirs \cup StatusEntries \cup StatusFiles

NextStatus ==
    \/ CallDetectStatus
    \/ CallDeriveStatus
    \/ ClaudeListStatus
    \/ ClaudeDetailStatus

SpecStatus == InitStatus /\ [][NextStatus]_vars

---------------------------------------------------------------------------
(* Claims about the status *)

\* C13: the status of a CLI session is decided by the first rule that applies:
\* (1) session.db modified less than 10 minutes ago: running; (2) an abort event
\* among the last five (non-blank) lines of the tail of events.jsonl: completed when
\* its reason is "user initiated", else error; (3) events.jsonl modified less than
\* 5 minutes ago: running; (4) otherwise, and when a read fails: completed.  Of
\* several abort events the earliest of the five decides.
C13_FirstRuleDecides ==
    lastOp.op = "detectStatus" =>
        LET dbFresh == subject.db = "file" /\ now - subject.dbMtime < 600000
            readFails == \/ subject.db = "unreadable"
                         \/ ~dbFresh /\ subject.events = "unreadable"
            lines == SelectSeq(subject.tail, LAMBDA l : l # "blank")
            five == [i \in 1..Min(5, Len(lines)) |-> lines[Len(lines) - Min(5, Len(lines)) + i]]
            abortAt == {i \in DOMAIN five : five[i] \in {"abortUser", "abortOther"}}
            first == CHOOSE i \in abortAt : \A j \in abortAt : i <= j
            eventsFresh == subject.events = "file" /\ now - subject.eventsMtime < 300000
        IN lastOp.status =
              IF readFails THEN "completed"
              ELSE IF dbFresh THEN "running"
              ELSE IF subject.events = "file" /\ abortAt # {}
                THEN IF five[first] = "abortUser" THEN "completed" ELSE "error"
              ELSE IF eventsFresh THEN "running"
              ELSE "completed"

\* A fresh session.db wins over an abort event in a log of six lines.
C13_Witness ==
    /\ lastOp.op = "detectStatus"
    /\ lastOp.status = "running"
    /\ subject.db = "file"
    /\ subject.events = "file"
    /\ now - subject.eventsMtime >= 300000
    /\ Len(subject.tail) = MaxTail
    /\ subject.tail[MaxTail] = "abortOther"

\* C14: an index entry with an end time is completed, one with no start time is
\* completed, and one with a start time and no end time is running exactly when
\* lastMessageDate (else startTime) is less than 10 minutes before now; never error.
C14_IndexStatus ==
    lastOp.op = "deriveStatus" =>
        LET activity == IF subject.lastMessageDate # 0 THEN subject.lastMessageDate
                        ELSE subject.startTime
        IN /\ lastOp.status \in {"running", "completed"}
           /\ subject.endTime # 0 => lastOp.status = "completed"
           /\ subject.startTime = 0 => lastOp.status = "completed"
           /\ (subject.endTime = 0 /\ subject.startTime # 0) =>
                 (lastOp.status = "running" <=> now - activity < 600000)

\* Started long ago, no end time, last message exactly 10 minutes ago: completed.
C14_Witness ==
    /\ lastOp.op = "deriveStatus"
    /\ lastOp.status = "completed"
    /\ subject.endTime = 0
    /\ subject.startTime = 1
    /\ now - subject.lastMessageDate = 600000

---------------------------------------------------------------------------
(* search.ts: SearchIndex *)

MaxLoadCalls == 2      \* cycle.loadCalls counts up to MaxLoadCalls

\* What getSession(id) gives: null, an exception, a detail without messages, or a
\* detail whose messages hold the word.
Texts == {"null", "throws", "none", "apple", "mango"}

\* The query strings: empty, blank, a one-letter word, and two words.
Queries == {"", " ", "a", "apple", "mango"}

\* The session lists passed to buildIndex: the ids of the SessionMeta.
SessionLists == {<<>>, <<"s1">>, <<"s2">>, <<"s1", "s2">>, <<"s2", "s1">>}

\* tokenize(query): the lower-case alphanumeric runs of at least two characters
Tokenize(query) ==
    IF query \in {"apple", "mango"} THEN <<query>>
    ELSE IF query = "apple mango" THEN <<"apple", "mango">>
    ELSE <<>>

\* !query || !query.trim()
IsBlankQuery(query) == query \in {"", " "}

\* The content array _doBuild extracts from the events of a detail.
ContentOf(text) == IF text = "none" THEN <<>> ELSE <<text>>

MaxRankEntries == 22   \* the ranked index holds up to MaxRankEntries sessions
MaxLimit == 3          \* the limit option is 0..MaxLimit, or omitted

DEFAULT_LIMIT == 20

\* Scores are held as whole multiples of 1/60: count / wordCount for the word
\* counts 1..6, the title bonus 0.5 and the cwd bonus 0.2.
SCORE_SCALE == 60
TITLE_BONUS == 30
CWD_BONUS == 12

\* The ids of the sessions of the ranked index: r1, r2, ...
RankId(i) == "r" \o ToString(i)
RankIds == {RankId(i) : i \in 1..MaxRankEntries}
RankIndex(id) == CHOOSE i \in 1..MaxRankEntries : RankId(i) = id

\* The SessionMeta of an id.  s1 and s2 have neither title nor cwd; the sessions
\* r<i> take turns in their source, every fourth has the word in its title and
\* every fifth in its working directory.
MetaOf(id) ==
    IF id \in Ids
      THEN [id |-> id, source |-> IF id = "s1" THEN "cli" ELSE "vscode",
            title |-> "", cwd |-> ""]
      ELSE LET i == RankIndex(id)
           IN [id |-> id,
               source |-> CASE i % 3 = 1 -> "cli"
                            [] i % 3 = 2 -> "vscode"
                            [] OTHER -> "claude-code",
               title |-> IF i % 4 = 0 THEN "apple notes" ELSE "",
               cwd |-> IF i % 5 = 0 THEN "/home/apple" ELSE ""]

\* The lower-case words of a text of the model.
WordsOf(text) ==
    CASE text = "" -> <<>>
      [] text = "apple pie" -> <<"apple", "pie">>
      [] text = "apple apple pie" -> <<"apple", "apple", "pie">>
      [] text = "apple notes" -> <<"apple", "notes">>
      [] text = "/home/apple" -> <<"/home/apple">>
      [] OTHER -> <<text>>

\* The occurrences of token in a word, counted as the indexOf loop counts them; a
\* word of the model holds a token at most once.
OccurrencesIn(word, token) ==
    IF word = token \/ (word = "/home/apple" /\ token = "apple") THEN 1 ELSE 0

\* The occurrences of token in a text
RECURSIVE CountIn(_, _)
CountIn(words, token) ==
    IF words = <<>> THEN 0
    ELSE OccurrencesIn(Head(words), token) + CountIn(Tail(words), token)

\* text.toLowerCase().includes(token)
Includes(text, token) == CountIn(WordsOf(text), token) > 0

\* entry.content.join(" ").toLowerCase().split(/\s+/).filter(Boolean)
RECURSIVE JoinedWords(_)
JoinedWords(content) ==
    IF content = <<>> THEN <<>>
    ELSE WordsOf(Head(content)) \o JoinedWords(Tail(content))

DoBuild_Nothing(sessions, text) == <<>>

\* _doBuild(sessions): the entries of the sessions whose detail loads
RECURSIVE DoBuild(_, _)
DoBuild(sessions, text) ==
    IF sessions = <<>> THEN <<>>
    ELSE LET id == Head(sessions)
             meta == MetaOf(id)
             rest == DoBuild(Tail(sessions), text)
         IN IF text[id] \in {"null", "throws"} THEN rest
            ELSE <<[id |-> id, source |-> meta.source,
                    title |-> IF meta.title # "" THEN meta.title ELSE id,
                    cwd |-> meta.cwd,
                    content |-> ContentOf(text[id])]>> \o rest

\* The score of an entry: over the tokens, count / wordCount, the title bonus and
\* the cwd bonus.
RECURSIVE Score(_, _)
Score(entry, tokens) ==
    IF tokens = <<>> THEN 0
    ELSE LET token == Head(tokens)
             words == JoinedWords(entry.content)
             wordCount == IF Len(words) = 0 THEN 1 ELSE Len(words)
             count == CountIn(words, token)
         IN (IF count > 0 THEN (count * SCORE_SCALE) \div wordCount ELSE 0)
              + (IF Includes(entry.title, token) THEN TITLE_BONUS ELSE 0)
              + (IF Includes(entry.cwd, token) THEN CWD_BONUS ELSE 0)
              + Score(entry, Tail(tokens))

\* SearchOptions: limit and source, each of which may be omitted.
NoOptions == [hasLimit |-> FALSE, limit |-> 0, source |-> "omitted"]

LimitOf_OrDefault(options) ==
    IF options.hasLimit /\ options.limit # 0 THEN options.limit ELSE DEFAULT_LIMIT

\* options?.limit ?? 20
LimitOf(options) == IF options.hasLimit THEN options.limit ELSE DEFAULT_LIMIT

\* options?.source ?? "all"
SourceFilterOf(options) == IF options.source = "omitted" THEN "all" ELSE options.source

PassesSource_Always(entry, sourceFilter) == TRUE

\* !(sourceFilter !== "all" && entry.source !== sourceFilter)
PassesSource(entry, sourceFilter) ==
    sourceFilter = "all" \/ entry.source = sourceFilter

\* r inserted into rs, which is in descending order of score, behind the results
\* that score as much.
RECURSIVE InsertResult(_, _)
InsertResult(rs, r) ==
    IF rs = <<>> THEN <<r>>
    ELSE IF r.score > Head(rs).score THEN <<r>> \o rs
    ELSE <<Head(rs)>> \o InsertResult(Tail(rs), r)

SortByScore_Unsorted(rs) == rs

\* results.sort((a, b) => b.score - a.score), a stable sort
RECURSIVE SortByScore(_)
SortByScore(rs) ==
    IF rs = <<>> THEN <<>>
    ELSE LET sorted == SortByScore(SubSeq(rs, 1, Len(rs) - 1))
         IN InsertResult(sorted, rs[Len(rs)])

\* results.slice(0, limit)
Slice(rs, limit) ==
    IF limit >= 0 THEN SubSeq(rs, 1, Min(limit, Len(rs)))
    ELSE SubSeq(rs, 1, IF Len(rs) + limit > 0 THEN Len(rs) + limit ELSE 0)

\* The loop over the entries: those that pass the source filter and score more
\* than 0, with their score, in the order of the entries.
RECURSIVE Scored(_, _, _)
Scored(es, tokens, sourceFilter) ==
    IF es = <<>> THEN <<>>
    ELSE LET entry == Head(es)
             score == Score(entry, tokens)
             rest == Scored(Tail(es), tokens, sourceFilter)
         IN IF PassesSource(entry, sourceFilter) /\ score > 0
              THEN <<[id |-> entry.id, score |-> score]>> \o rest
              ELSE rest

\* The results of search: the scored entries, best first, cut to the limit.
Results(es, tokens, options) ==
    IF tokens = <<>> THEN <<>>
    ELSE Slice(SortByScore(Scored(es, tokens, SourceFilterOf(options))),
               LimitOf(options))

NoSearchOp == [op |-> "init", query |-> "", options |-> NoOptions, sessions |-> <<>>,
               loads |-> 0, results |-> <<>>, scores |-> <<>>, afterClear |-> FALSE]

Loaded(c, loads) ==
    [c EXCEPT !.loadCalls = IF loads > 0 /\ c.loadCalls < MaxLoadCalls
                              THEN c.loadCalls + 1 ELSE c.loadCalls,
              !.afterClear = FALSE]

\* buildIndex(sessions) was called.
Supplied(c, sessions) ==
    [c EXCEPT !.called = TRUE, !.supplied = sessions, !.previous = c.supplied]

\* A buildIndex that returns before it stores the sessions when the index is built.
BuildIndex_KeepsFirstList(sessions) ==
    LET build == indexEntries = <<>>
        loads == IF build THEN Len(sessions) ELSE 0
    IN /\ storedSessions' = IF build THEN [set |-> TRUE, list |-> sessions]
                             ELSE storedSessions
       /\ indexEntries' = IF build THEN DoBuild(sessions, sessionText) ELSE indexEntries
       /\ lastOp' = [NoSearchOp EXCEPT !.op = "buildIndex", !.sessions = sessions,
                        !.loads = loads, !.afterClear = cycle.afterClear]
       /\ cycle' = Supplied(Loaded(cycle, loads), sessions)
       /\ UNCHANGED <<cache, clearLog, now, fsVars, listLog, ccVars, textVars, timestamps,
                      subject, sessionText>>

BuildIndex_Always(sessions) ==
    /\ storedSessions' = [set |-> TRUE, list |-> sessions]
    /\ indexEntries' = DoBuild(sessions, sessionText)
    /\ lastOp' = [NoSearchOp EXCEPT !.op = "buildIndex", !.sessions = sessions,
                     !.loads = Len(sessions), !.afterClear = cycle.afterClear]
    /\ cycle' = Supplied(Loaded(cycle, Len(sessions)), sessions)
    /\ UNCHANGED <<cache, clearLog, now, fsVars, listLog, ccVars, textVars, timestamps, subject,
                   sessionText>>

\* buildIndex(sessions)
BuildIndex(sessions) ==
    LET build == indexEntries = <<>>
        loads == IF build THEN Len(sessions) ELSE 0
    IN /\ storedSessions' = [set |-> TRUE, list |-> sessions]
       /\ indexEntries' = IF build THEN DoBuild(sessions, sessionText) ELSE indexEntries
       /\ lastOp' = [NoSearchOp EXCEPT !.op = "buildIndex", !.sessions = sessions,
                        !.loads = loads, !.afterClear = cycle.afterClear]
       /\ cycle' = Supplied(Loaded(cycle, loads), sessions)
       /\ UNCHANGED <<cache, clearLog, now, fsVars, listLog, ccVars, textVars, timestamps, subject,
                      sessionText>>

Search_BlankRebuilds(query, options) ==
    LET build == indexEntries = <<>> /\ storedSessions.set
        es == IF build THEN DoBuild(storedSessions.list, sessionText) ELSE indexEntries
        loads == IF build THEN Len(storedSessions.list) ELSE 0
        rs == Results(es, Tokenize(query), options)
    IN /\ indexEntries' = es
       /\ lastOp' = [NoSearchOp EXCEPT !.op = "search", !.query = query, !.loads = loads,
                        !.options = options,
                        !.results = [i \in DOMAIN rs |-> rs[i].id],
                        !.scores = [i \in DOMAIN rs |-> rs[i].score],
                        !.afterClear = cycle.afterClear]
       /\ cycle' = Loaded(cycle, loads)
       /\ UNCHANGED <<cache, clearLog, now, fsVars, listLog, ccVars, textVars, timestamps, subject,
                      storedSessions, sessionText>>

\* search(query, options); the results are observed as their ids and their scores
Search(query, options) ==
    IF IsBlankQuery(query)
      THEN /\ lastOp' = [NoSearchOp EXCEPT !.op = "search", !.query = query,
                            !.options = options, !.afterClear = cycle.afterClear]
           /\ UNCHANGED <<cache, clearLog, now, fsVars, listLog, ccVars, auxVars>>
      ELSE LET build == indexEntries = <<>> /\ storedSessions.set
               es == IF build THEN DoBuild(storedSessions.list, sessionText)
                     ELSE indexEntries
               loads == IF build THEN Len(storedSessions.list) ELSE 0
               rs == Results(es, Tokenize(query), options)
           IN /\ indexEntries' = es
              /\ lastOp' = [NoSearchOp EXCEPT !.op = "search", !.query = query,
                               !.options = options, !.loads = loads,
                               !.results = [i \in DOMAIN rs |-> rs[i].id],
                               !.scores = [i \in DOMAIN rs |-> rs[i].score],
                               !.afterClear = cycle.afterClear]
              /\ cycle' = Loaded(cycle, loads)
              /\ UNCHANGED <<cache, clearLog, now, fsVars, listLog, ccVars, textVars, timestamps,
                             subject, storedSessions, sessionText>>

\* clear()
Clear ==
    /\ indexEntries' = <<>>
    /\ cycle' = [cycle EXCEPT !.loadCalls = 0, !.afterClear = storedSessions.set]
    /\ lastOp' = [NoSearchOp EXCEPT !.op = "clear"]
    /\ UNCHANGED <<cache, clearLog, now, fsVars, listLog, ccVars, textVars, timestamps, subject,
                   storedSessions, sessionText>>

\* The session id changes on disk: getSession(id) gives something else.
SetSessionText(id, text) ==
    /\ sessionText[id] # text
    /\ sessionText' = [sessionText EXCEPT ![id] = text]
    /\ lastOp' = [NoSearchOp EXCEPT !.op = "env"]
    /\ UNCHANGED <<cache, clearLog, now, fsVars, listLog, ccVars, textVars, timestamps, subject,
                   indexEntries, storedSessions, cycle>>

InitSearch ==
    /\ cache = EmptyMap
    /\ clearLog = NoClear
    /\ now = 0
    /\ lastOp = NoSearchOp
    /\ listLog = NoList
    /\ NoFiles
    /\ NoClaude
    /\ timestamps = <<>>
    /\ subject = NoSubject
    /\ indexEntries = <<>>
    /\ storedSessions = NoStored
    /\ sessionText = [i \in Ids |-> "null"]
    /\ cycle = NoCycle
    /\ NoText

NextSearch ==
    \/ \E sessions \in SessionLists : BuildIndex(sessions)
    \/ \E query \in Queries : Search(query, NoOptions)
    \/ Clear
    \/ \E id \in Ids, text \in Texts : SetSessionText(id, text)

SpecSearch == InitSearch /\ [][NextSearch]_vars

---------------------------------------------------------------------------
(* SpecRank: searches with options on an index built from up to MaxRankEntries
   sessions that differ in source, title, working directory and content *)

\* What getSession gives for the ranked sessions: no message, or one message.
RankTexts == {"none", "apple", "apple pie", "apple apple pie", "mango"}

RankQueries == {"apple", "apple mango"}

\* The options of a search: every source, the limits 0 and MaxLimit, or neither.
RankOptions ==
    {[hasLimit |-> TRUE, limit |-> l, source |-> src] :
        l \in {0, MaxLimit},
        src \in {"omitted", "all", "cli", "vscode", "claude-code"}}
      \cup {[hasLimit |-> FALSE, limit |-> 0, source |-> src] :
               src \in {"omitted", "all", "cli", "vscode", "claude-code"}}

\* The session lists: the first n ranked sessions.
RankLists ==
    {[i \in 1..n |-> RankId(i)] : n \in {2, 5, MaxRankEntries}}

\* The details on disk: every second session holds one text, the others hold the
\* word alone or another word.
RankDetails ==
    {[id \in RankIds |-> IF RankIndex(id) % 2 = 0 THEN t1 ELSE t2] :
        t1 \in RankTexts, t2 \in {"apple", "mango"}}

\* A new SearchIndex on which buildIndex(sessions) has been called once.
InitRank ==
    /\ cache = EmptyMap
    /\ clearLog = NoClear
    /\ now = 0
    /\ listLog = NoList
    /\ NoFiles
    /\ NoClaude
    /\ timestamps = <<>>
    /\ subject = NoSubject
    /\ NoText
    /\ sessionText \in RankDetails
    /\ \E sessions \in RankLists :
          /\ storedSessions = [set |-> TRUE, list |-> sessions]
          /\ indexEntries = DoBuild(sessions, sessionText)
          /\ cycle = Supplied(Loaded(NoCycle, Len(sessions)), sessions)
          /\ lastOp = [NoSearchOp EXCEPT !.op = "buildIndex", !.sessions = sessions,
                          !.loads = Len(sessions)]

NextRank ==
    \E query \in RankQueries, options \in RankOptions : Search(query, options)

SpecRank == InitRank /\ [][NextRank]_vars

---------------------------------------------------------------------------
(* Claims about the search index *)

\* C17: buildIndex(sessions) called while entries is non-empty leaves entries
\* unchanged and loads no session detail; it only replaces storedSessions.
C17_BuildIsNoOpWhenBuilt ==
    [][(lastOp'.op = "buildIndex" /\ indexEntries # <<>>) =>
          /\ indexEntries' = indexEntries
          /\ lastOp'.loads = 0
          /\ storedSessions' = [set |-> TRUE, list |-> lastOp'.sessions]]_vars

\* A one-entry index is kept when buildIndex is given two sessions.
C17_Witness ==
    /\ lastOp.op = "buildIndex"
    /\ lastOp.loads = 0
    /\ Len(indexEntries) = 1
    /\ Len(storedSessions.list) = 2
    /\ \A id \in Ids : sessionText[id] \in {"apple", "mango"}

\* C18: between two clear() calls the session details are loaded in at most one of
\* the buildIndex() and search() calls.
C18_OneBuildPerCycle == cycle.loadCalls <= 1

\* id is among the elements of the sequence q.
InSeq(id, q) == \E i \in DOMAIN q : q[i] = id

\* C19: after buildIndex(S) and clear(), the next search() with a non-blank query
\* loads every session of S again, and its entries and results are those of the
\* sessions as they are at that search.
C19_SearchRebuildsAfterClear ==
    [][(/\ lastOp'.op = "search"
        /\ ~IsBlankQuery(lastOp'.query)
        /\ cycle.afterClear) =>
          /\ storedSessions' = storedSessions
          /\ lastOp'.loads = Len(storedSessions.list)
          /\ \A id \in Ids :
                (\E i \in DOMAIN indexEntries' : indexEntries'[i].id = id)
                  <=> (/\ InSeq(id, storedSessions.list)
                       /\ sessionText[id] \notin {"null", "throws"})
          /\ \A i \in DOMAIN indexEntries' :
                indexEntries'[i].content = ContentOf(sessionText[indexEntries'[i].id])
          /\ \A id \in Ids :
                InSeq(id, lastOp'.results)
                  <=> (/\ InSeq(id, storedSessions.list)
                       /\ sessionText[id] = lastOp'.query
                       /\ lastOp'.query \in {"apple", "mango"})]_vars

\* A search after clear() that loaded two sessions and found one of them.
C19_Witness ==
    /\ lastOp.op = "search"
    /\ lastOp.afterClear
    /\ lastOp.query = "mango"
    /\ lastOp.loads = 2
    /\ lastOp.results = <<"s2">>
    /\ Len(indexEntries) = 2

\* C20: search(query) with an empty or blank query returns [], loads nothing, and
\* leaves entries and storedSessions as they are, also when entries is empty and
\* storedSessions is set.
C20_BlankQueryTouchesNothing ==
    [][(lastOp'.op = "search" /\ IsBlankQuery(lastOp'.query)) =>
          /\ lastOp'.results = <<>>
          /\ lastOp'.loads = 0
          /\ indexEntries' = indexEntries
          /\ storedSessions' = storedSessions]_vars

\* A blank query on a cleared index whose remembered sessions would load.
C20_Witness ==
    /\ lastOp.op = "search"
    /\ lastOp.query = " "
    /\ lastOp.afterClear
    /\ indexEntries = <<>>
    /\ storedSessions.list = <<"s1">>
    /\ sessionText["s1"] = "apple"

---------------------------------------------------------------------------
(* Claims about the Claude Code session registry *)

\* C25: isClaudeCodeSession(id) returns true only when a transcript <id>.jsonl
\* exists under a project directory at the time of the call, whatever was listed,
\* created, deleted or cleared before.
C25_MemberHasTranscript ==
    (lastOp.op = "isClaudeCodeSession" /\ lastOp.member)
        => HasTranscript(ccRoot, ccFiles, lastOp.id)

---------------------------------------------------------------------------
(* Claims about a compute that throws *)

\* C29: when compute throws during cachedCall(key, ttl, compute), the exception
\* reaches the caller and the cache map is as it was before the call: no entry is
\* stored for key, an expired entry of key is neither removed nor refreshed, and the
\* entries of the other keys are untouched.
C29_ThrowLeavesCacheAlone ==
    [][lastOp'.op = "cachedCallThrew" =>
          /\ cache' = cache
          /\ lastOp'.computes = 1
          /\ lastOp'.ret = NoCall.ret]_vars

\* compute throws on an expired entry while the other key holds an entry.
C29_Witness ==
    /\ lastOp.op = "cachedCallThrew"
    /\ lastOp.pre = "expired"
    /\ lastOp.key \in DOMAIN cache
    /\ now >= cache[lastOp.key].expiresAt
    /\ DOMAIN cache = Keys

---------------------------------------------------------------------------
(* SpecParse: the two line-delimited parsers over logs of up to MaxRawLines lines *)

MaxRawLines == 4       \* a log has at most MaxRawLines lines

\* The lines of a transcript: two entries, a malformed line and a blank line.
TranscriptLines ==
    {Entry("u1", "user", FALSE, 1, "text"),
     Entry("a1", "assistant", FALSE, 2, "text"),
     Entry("", "bad", FALSE, 0, ""),
     Entry("", "blank", FALSE, 0, "")}

\* All the sequences of at most n elements of S.
SeqsUpTo(S, n) == UNION {[1..k -> S] : k \in 0..n}

NoParseOp == [op |-> "init", parsed |-> <<>>]

\* getSession reads events.jsonl: the loop over its lines.
ParseEvents ==
    /\ rawLines.format = "events"
    /\ lastOp' = [op |-> "parseEvents", parsed |-> ParseEventLines(rawLines.lines)]
    /\ UNCHANGED <<cache, clearLog, now, fsVars, listLog, ccVars, auxVars>>

\* parseClaudeCodeJsonl(filePath) on a readable transcript within the size cap.
ParseTranscript ==
    /\ rawLines.format = "transcript"
    /\ lastOp' = [op |-> "parseClaudeCodeJsonl",
                  parsed |-> ParseClaudeCodeJsonl([id |-> "s1", state |-> "ok",
                                                   lines |-> rawLines.lines])]
    /\ UNCHANGED <<cache, clearLog, now, fsVars, listLog, ccVars, auxVars>>

InitParse ==
    /\ cache = EmptyMap
    /\ clearLog = NoClear
    /\ now = 0
    /\ lastOp = NoParseOp
    /\ listLog = NoList
    /\ NoFiles
    /\ NoClaude
    /\ timestamps = <<>>
    /\ subject = NoSubject
    /\ NoSearch
    /\ rawLines \in {[format |-> "events", lines |-> l] :
                         l \in SeqsUpTo(LineKinds, MaxRawLines)}
                   \cup {[format |-> "transcript", lines |-> l] :
                            l \in SeqsUpTo(TranscriptLines, MaxRawLines)}
    /\ message = NoMessage
    /\ rawContent = NoContent

NextParse ==
    \/ ParseEvents
    \/ ParseTranscript

SpecParse == InitParse /\ [][NextParse]_vars

---------------------------------------------------------------------------
(* Claims about line-delimited parsing *)

\* The line is neither blank nor malformed.
IsWellFormed(line) ==
    IF rawLines.format = "events" THEN line \notin {"blank", "bad"}
    ELSE line.type \notin {"blank", "bad"}

\* What JSON.parse gives for a well-formed line.
ParsedValue(line) ==
    IF rawLines.format = "events"
      THEN [type |-> IF line = "user" THEN "user.message" ELSE "session.start"]
      ELSE line

\* The position in the file of the k-th well-formed line.
NthWellFormed(k) ==
    LET good == {i \in DOMAIN rawLines.lines : IsWellFormed(rawLines.lines[i])}
    IN CHOOSE i \in good : Cardinality({j \in good : j <= i}) = k

\* C26: parsing a line-delimited log returns exactly the parsed values of its
\* non-blank, well-formed lines, in file order: a malformed line is skipped, the
\* well-formed lines after it are still returned, and it never empties the result.
C26_BadLinesAreSkipped ==
    lastOp.op \in {"parseEvents", "parseClaudeCodeJsonl"} =>
        LET good == {i \in DOMAIN rawLines.lines : IsWellFormed(rawLines.lines[i])}
        IN /\ Len(lastOp.parsed) = Cardinality(good)
           /\ \A k \in DOMAIN lastOp.parsed :
                 lastOp.parsed[k] = ParsedValue(rawLines.lines[NthWellFormed(k)])

\* A transcript whose second line is malformed and whose third is blank.
C26_Witness ==
    /\ lastOp.op = "parseClaudeCodeJsonl"
    /\ Len(rawLines.lines) = 4
    /\ rawLines.lines[2].type = "bad"
    /\ rawLines.lines[3].type = "blank"
    /\ lastOp.parsed = <<rawLines.lines[1], rawLines.lines[4]>>
    /\ rawLines.lines[1].uuid = "u1"
    /\ rawLines.lines[4].uuid = "a1"

---------------------------------------------------------------------------
(* Truncation of message text: a text is modelled by its length, a converted text by
   the number of leading characters kept and whether "\n...(truncated)" follows *)

MAX_TEXT_LENGTH == 10000

\* The lengths of the raw text fields: short ones and the ones around the limit.
TextLengths ==
    {1, 2, MAX_TEXT_LENGTH - 1, MAX_TEXT_LENGTH, MAX_TEXT_LENGTH + 1,
     MAX_TEXT_LENGTH + 2, 2 * MAX_TEXT_LENGTH}

\* Where a text field sits in the session file of each adapter.
CliFields == {"user.message", "assistant.message", "tool.execution_complete"}
VSCodeFields == {"message.text", "message.parts.text", "response.value"}
ClaudeFields == {"user.string", "user.tool_result", "assistant.string", "assistant.text"}

Untouched(len) == [kept |-> len, marker |-> FALSE]

\* text.length > MAX_TEXT_LENGTH ? text.slice(0, MAX_TEXT_LENGTH) + "\n...(truncated)" : text
Truncate(len) ==
    IF len > MAX_TEXT_LENGTH THEN [kept |-> MAX_TEXT_LENGTH, marker |-> TRUE]
    ELSE Untouched(len)

\* getSession of the CLI adapter: the events are the parsed lines themselves.
CliText(field, len) == Untouched(len)

\* readSessionContent and requestsToEvents: the request text and the texts of its
\* parts are truncated, the response text is joined and passed on.
VSCodeText(field, len) ==
    IF field \in {"message.text", "message.parts.text"} THEN Truncate(len)
    ELSE Untouched(len)

\* claudeCodeEntriesToEvents: tool results and text blocks are truncated, a content
\* that is a plain string is copied.
ClaudeText(field, len) ==
    IF field \in {"user.tool_result", "assistant.text"} THEN Truncate(len)
    ELSE Untouched(len)

NoTextOp == [op |-> "init", text |-> Untouched(0)]

\* getSession(id) of a CLI session holding the field
LoadCliText ==
    /\ message.kind = "cli"
    /\ lastOp' = [op |-> "getSession", text |-> CliText(message.field, message.length)]
    /\ UNCHANGED <<cache, clearLog, now, fsVars, listLog, ccVars, auxVars>>

\* getVSCodeSession(id) of a session holding the field
LoadVSCodeText ==
    /\ message.kind = "vscode"
    /\ lastOp' = [op |-> "getVSCodeSession",
                  text |-> VSCodeText(message.field, message.length)]
    /\ UNCHANGED <<cache, clearLog, now, fsVars, listLog, ccVars, auxVars>>

\* getClaudeCodeSession(id) of a transcript holding the field
LoadClaudeText ==
    /\ message.kind = "claude-code"
    /\ lastOp' = [op |-> "getClaudeCodeSession",
                  text |-> ClaudeText(message.field, message.length)]
    /\ UNCHANGED <<cache, clearLog, now, fsVars, listLog, ccVars, auxVars>>

InitTruncate ==
    /\ cache = EmptyMap
    /\ clearLog = NoClear
    /\ now = 0
    /\ lastOp = NoTextOp
    /\ listLog = NoList
    /\ NoFiles
    /\ NoClaude
    /\ timestamps = <<>>
    /\ subject = NoSubject
    /\ NoSearch
    /\ rawLines = NoLines
    /\ message \in
          {[kind |-> "cli", field |-> f, length |-> n] :
              f \in CliFields, n \in TextLengths}
          \cup {[kind |-> "vscode", field |-> f, length |-> n] :
                   f \in VSCodeFields, n \in TextLengths}
          \cup {[kind |-> "claude-code", field |-> f, length |-> n] :
                   f \in ClaudeFields, n \in TextLengths}
    /\ rawContent = NoContent

NextTruncate ==
    \/ LoadCliText
    \/ LoadVSCodeText
    \/ LoadClaudeText

SpecTruncate == InitTruncate /\ [][NextTruncate]_vars

---------------------------------------------------------------------------
(* Claims about truncation *)

\* C27: in every SessionDetail of every adapter, a text field longer than 10,000
\* characters is cut to its first 10,000 characters followed by the truncation
\* marker, and a field of at most 10,000 characters is unchanged, for user
\* messages, assistant messages and tool results alike.
C27_LongFieldsAreCut ==
    lastOp.op \in {"getSession", "getVSCodeSession", "getClaudeCodeSession"} =>
        /\ message.length > 10000 => lastOp.text = [kept |-> 10000, marker |-> TRUE]
        /\ message.length <= 10000 =>
              lastOp.text = [kept |-> message.length, marker |-> FALSE]

---------------------------------------------------------------------------
(* Claims about events without a usable timestamp *)

\* The events whose timestamp parses, in their order.
Parseable(times) ==
    LET keep == {i \in DOMAIN times : times[i] # NaN}
        nth(k) == CHOOSE i \in keep : Cardinality({j \in keep : j <= i}) = k
    IN [k \in 1..Cardinality(keep) |-> times[nth(k)]]

\* C28: an event whose timestamp is empty or does not parse adds nothing to the
\* duration, which is that of the remaining events, and it is still in the events
\* of the returned detail, at its position, and counted in eventCounts.
C28_UntimedEventsAreKept ==
    lastOp.op = "duration" =>
        /\ lastOp.duration = DurationOf(lastOp.adapter, Parseable(timestamps))
        /\ lastOp.events = timestamps
        /\ lastOp.eventCount = Len(timestamps)

\* A Claude Code session whose second of four events has no usable timestamp, the
\* others being 5 s and more than 5 minutes apart.
C28_Witness ==
    /\ lastOp.op = "duration"
    /\ lastOp.adapter = "claude-code"
    /\ timestamps = <<5000, NaN, 10000, 315000>>
    /\ lastOp.events[2] = NaN
    /\ lastOp.eventCount = 4
    /\ lastOp.duration = 305000

---------------------------------------------------------------------------
(* Claims about the remembered session list *)

\* C30: the lazy rebuild uses the session list of the latest buildIndex(): a
\* non-blank search() that finds the entries empty loads exactly the sessions of
\* that list and builds its entries from them, not from a list supplied earlier; and
\* on an index for which buildIndex() was never called it returns [] and loads
\* nothing.
C30_RebuildUsesLatestList ==
    [][(/\ lastOp'.op = "search"
        /\ ~IsBlankQuery(lastOp'.query)
        /\ indexEntries = <<>>) =>
          IF cycle.called
            THEN /\ lastOp'.loads = Len(cycle.supplied)
                 /\ \A id \in Ids :
                       (\E i \in DOMAIN indexEntries' : indexEntries'[i].id = id)
                         <=> (/\ InSeq(id, cycle.supplied)
                              /\ sessionText[id] \notin {"null", "throws"})
            ELSE /\ lastOp'.results = <<>>
                 /\ lastOp'.loads = 0
                 /\ indexEntries' = <<>>]_vars

\* buildIndex([s1]) built an entry, buildIndex([s2]) followed, then clear(): the
\* search loads s2 alone although s1 would load as well.
C30_Witness ==
    /\ lastOp.op = "search"
    /\ lastOp.afterClear
    /\ cycle.previous = <<"s1">>
    /\ cycle.supplied = <<"s2">>
    /\ lastOp.loads = 1
    /\ Len(indexEntries) = 1
    /\ indexEntries[1].id = "s2"
    /\ sessionText["s1"] = "apple"
    /\ lastOp.results = <<"s2">>

---------------------------------------------------------------------------
(* Claims about the options and the ranking of a search *)

\* The entry of the index with this id.
EntryOf(id) ==
    CHOOSE e \in {indexEntries[i] : i \in DOMAIN indexEntries} : e.id = id

\* The entries that score more than 0 for the tokens of the last search.
Scoring ==
    {i \in DOMAIN indexEntries :
        Score(indexEntries[i], Tokenize(lastOp.query)) > 0}

\* C22: a search with a source s other than "all" returns only results whose entry
\* has source s; with source "all" or no source, no entry is left out because of
\* its source: the results are as many as the limit allows of all scoring entries.
C22_SourceFilter ==
    lastOp.op = "search" =>
        /\ lastOp.options.source \notin {"all", "omitted"} =>
              \A k \in DOMAIN lastOp.results :
                  EntryOf(lastOp.results[k]).source = lastOp.options.source
        /\ lastOp.options.source \in {"all", "omitted"} =>
              LET limit == IF lastOp.options.hasLimit THEN lastOp.options.limit ELSE 20
              IN Len(lastOp.results) = Min(limit, Cardinality(Scoring))

\* A search for the vscode sessions alone, in an index where sessions of the other
\* sources match as well.
C22_Witness ==
    /\ lastOp.op = "search"
    /\ lastOp.options.source = "vscode"
    /\ ~lastOp.options.hasLimit
    /\ Len(lastOp.results) >= 2
    /\ \E i \in Scoring : indexEntries[i].source = "cli"
    /\ \E i \in Scoring : indexEntries[i].source = "claude-code"

Qualifying ==
    {i \in Scoring :
        \/ lastOp.options.source \in {"all", "omitted"}
        \/ indexEntries[i].source = lastOp.options.source}

\* C24: a search returns source-filtered entries that score more than 0, each once
\* and with its score, in order of non-increasing score, as many as the limit
\* allows; no entry left out scores more than a returned one.
C24_BestFirstThenCut ==
    lastOp.op = "search" =>
        LET tokens == Tokenize(lastOp.query)
            limit == IF lastOp.options.hasLimit THEN lastOp.options.limit ELSE 20
            returned == {i \in DOMAIN indexEntries :
                            InSeq(indexEntries[i].id, lastOp.results)}
        IN /\ returned \subseteq Qualifying
           /\ Len(lastOp.results) = Min(limit, Cardinality(Qualifying))
           /\ Cardinality(returned) = Len(lastOp.results)
           /\ \A k \in DOMAIN lastOp.results :
                 lastOp.scores[k] = Score(EntryOf(lastOp.results[k]), tokens)
           /\ \A k \in 1..(Len(lastOp.results) - 1) :
                 lastOp.scores[k] >= lastOp.scores[k + 1]
           /\ \A i \in Qualifying \ returned : \A k \in DOMAIN lastOp.scores :
                 Score(indexEntries[i], tokens) <= lastOp.scores[k]

\* A search cut to MaxLimit results of different scores, in an index that holds a
\* matching entry left out and an entry that does not match.
C24_Witness ==
    /\ lastOp.op = "search"
    /\ lastOp.options.hasLimit
    /\ Len(lastOp.results) = MaxLimit
    /\ lastOp.scores[1] > lastOp.scores[MaxLimit]
    /\ Cardinality(Qualifying) > MaxLimit
    /\ Cardinality(Scoring) < Len(indexEntries)
    /\ lastOp.results[1] # indexEntries[1].id

---------------------------------------------------------------------------
(* search.ts: extractHighlights and trimToWordBoundary.  A string is a sequence of
   characters; positions are counted from 0 as in the code, so text[i] of the code
   is text[i + 1] here and text.slice(s, e) is SubSeq(text, s + 1, e) *)

MaxPad == 3            \* the content starts and ends with 0..MaxPad filler characters

WINDOW == 60
MAX_WINDOWS == 10
MAX_HIGHLIGHTS == 3

\* toLowerCase() of the characters of the model
ToLower(c) == IF c = "A" THEN "a" ELSE c

LowerCase(text) == [i \in DOMAIN text |-> ToLower(text[i])]

\* /\s/.test(c)
IsSpace(c) == c = " "

\* lower.indexOf(token, idx), -1 when there is no occurrence at or after idx
IndexOf(text, token, idx) ==
    LET hits == {i \in idx..(Len(text) - Len(token)) :
                    \A k \in DOMAIN token : text[i + k] = token[k]}
    IN IF hits = {} THEN -1 ELSE CHOOSE i \in hits : \A j \in hits : i <= j

Max(a, b) == IF a >= b THEN a ELSE b

\* The while loop over the occurrences of one token, from idx on: a window per
\* occurrence, until the windows are MAX_WINDOWS.
RECURSIVE TokenWindows(_, _, _, _)
TokenWindows(lower, token, idx, windows) ==
    LET at == IndexOf(lower, token, idx)
    IN IF at = -1 THEN windows
       ELSE LET start == Max(0, at - WINDOW)
                end == Min(Len(lower), at + WINDOW)
                next == Append(windows, <<start, end>>)
            IN IF Len(next) >= MAX_WINDOWS THEN next
               ELSE TokenWindows(lower, token, at + Len(token), next)

\* The for loop over the tokens
RECURSIVE AllWindows(_, _, _)
AllWindows(lower, tokens, windows) ==
    IF tokens = <<>> THEN windows
    ELSE AllWindows(lower, Tail(tokens), TokenWindows(lower, Head(tokens), 0, windows))

\* w inserted into ws, which is in ascending order of start, behind the windows
\* that start at the same place.
RECURSIVE InsertWindow(_, _)
InsertWindow(ws, w) ==
    IF ws = <<>> THEN <<w>>
    ELSE IF w[1] < Head(ws)[1] THEN <<w>> \o ws
    ELSE <<Head(ws)>> \o InsertWindow(Tail(ws), w)

\* windows.sort((a, b) => a[0] - b[0])
RECURSIVE SortWindows(_)
SortWindows(ws) ==
    IF ws = <<>> THEN <<>>
    ELSE LET sorted == SortWindows(SubSeq(ws, 1, Len(ws) - 1))
         IN InsertWindow(sorted, ws[Len(ws)])

\* The merge loop: a window that starts inside the last merged one extends it,
\* another one is added; the loop ends once there are MAX_HIGHLIGHTS merged windows.
RECURSIVE MergeWindows(_, _)
MergeWindows(ws, merged) ==
    IF ws = <<>> THEN merged
    ELSE LET w == Head(ws)
             n == Len(merged)
             next == IF n = 0 THEN <<w>>
                     ELSE IF w[1] <= merged[n][2]
                       THEN [merged EXCEPT ![n] = <<merged[n][1], Max(merged[n][2], w[2])>>]
                     ELSE Append(merged, w)
         IN IF Len(next) >= MAX_HIGHLIGHTS THEN next
            ELSE MergeWindows(Tail(ws), next)

\* text.trim()
Trim(text) ==
    LET solid == {i \in DOMAIN text : ~IsSpace(text[i])}
    IN IF solid = {} THEN <<>>
       ELSE SubSeq(text, CHOOSE i \in solid : \A j \in solid : i <= j,
                         CHOOSE i \in solid : \A j \in solid : i >= j)

\* trimToWordBoundary(text, start, end)
TrimToWordBoundary(text, start, end) ==
    LET s == IF start > 0 /\ ~IsSpace(text[start])
               THEN CHOOSE j \in start..end :
                       /\ j = end \/ IsSpace(text[j + 1])
                       /\ \A i \in start..(j - 1) : ~IsSpace(text[i + 1])
               ELSE start
        e == IF end < Len(text) /\ ~IsSpace(text[end + 1])
               THEN CHOOSE j \in s..end :
                       /\ j = s \/ IsSpace(text[j])
                       /\ \A i \in (j + 1)..end : ~IsSpace(text[i])
               ELSE end
    IN Trim(SubSeq(text, s + 1, e))

\* extractHighlights(rawContent, tokens)
ExtractHighlights(text, tokens) ==
    LET windows == AllWindows(LowerCase(text), tokens, <<>>)
        merged == MergeWindows(SortWindows(windows), <<>>)
        snippets == [i \in DOMAIN merged |->
                        TrimToWordBoundary(text, merged[i][1], merged[i][2])]
    IN SelectSeq(snippets, LAMBDA snippet : snippet # <<>>)

---------------------------------------------------------------------------
(* SpecHighlight: extractHighlights over contents that hold one or two matches *)

\* Filler words of four letters: "wwww wwww ..." cut to n characters.
Filler(n) == [i \in 1..n |-> IF i % 5 = 0 THEN " " ELSE "w"]

\* The words that match a token, as the content spells them.
MatchWords == {<<"a", "b">>, <<"A", "b">>, <<"c", "d">>}

\* The contents: filler, a match, filler, possibly a second match, filler.  The gap
\* between the matches runs from none to more than two windows.
Contents ==
    {Filler(lead) \o first \o Filler(gap) \o second \o Filler(trail) :
        lead \in {0, MaxPad, WINDOW, WINDOW + 10},
        first \in {<<"a", "b">>, <<"A", "b">>},
        gap \in {0, 1, WINDOW - 2, 2 * WINDOW - 3, 2 * WINDOW - 2, 2 * WINDOW - 1,
                  2 * WINDOW + 10},
        second \in MatchWords \cup {<<>>},
        trail \in {0, MaxPad, WINDOW + 10}}

\* The tokens of the query
TokenLists == {<<<<"a", "b">>>>, <<<<"a", "b">>, <<"c", "d">>>>}

NoHighlightOp == [op |-> "init", highlights |-> <<>>]

\* search() extracts the highlights of an entry that scores.
CallExtractHighlights ==
    /\ lastOp' = [op |-> "extractHighlights",
                  highlights |-> ExtractHighlights(rawContent.text, rawContent.tokens)]
    /\ UNCHANGED <<cache, clearLog, now, fsVars, listLog, ccVars, auxVars>>

InitHighlight ==
    /\ cache = EmptyMap
    /\ clearLog = NoClear
    /\ now = 0
    /\ lastOp = NoHighlightOp
    /\ listLog = NoList
    /\ NoFiles
    /\ NoClaude
    /\ timestamps = <<>>
    /\ subject = NoSubject
    /\ NoSearch
    /\ rawLines = NoLines
    /\ message = NoMessage
    /\ rawContent \in {[text |-> t, tokens |-> k] : t \in Contents, k \in TokenLists}

NextHighlight == CallExtractHighlights

SpecHighlight == InitHighlight /\ [][NextHighlight]_vars

---------------------------------------------------------------------------
(* Claims about the highlights *)

\* C21: every highlight snippet is at most 121 characters long, for every content
\* and every set of query tokens, also when matches lie close together and their
\* windows are merged.
C21_SnippetsAreShort ==
    lastOp.op = "extractHighlights" =>
        \A k \in DOMAIN lastOp.highlights : Len(lastOp.highlights[k]) <= 121

=============================================================================
